---- MODULE Spec2Model ----
(***************************************************************************)
(* Model of the window/workspace registry of niri_window_buttons           *)
(* (src/src/compositor.rs): WindowTracker::process_event, the state        *)
(* machine that merges compositor events, and generate_snapshot, the pure  *)
(* function that orders, filters and highlights the windows.               *)
(*                                                                         *)
(* Option<T> is modelled as a sequence: <<>> is None, <<x>> is Some(x).    *)
(* A BTreeMap<u64, T> is a function whose domain is the set of its keys;   *)
(* iteration over it goes in ascending key order.                          *)
(***************************************************************************)
EXTENDS Integers, Sequences, FiniteSets, TLC

---------------------------------------------------------------------------
(* Bounds of the model.                                                    *)

\* The registry under the event stream (Spec).
MaxWin == 3
MaxWs == 1
MaxVec == 2

\* The windows of a snapshot the ancestry walk is checked over.
WalkWin == 2

\* The calls of ProcessInfo::query one notification is followed for.
MaxLookups == 3

\* The windows of a snapshot the desktop-entry pass is checked over.
EntryWin == 2

\* The length of an app_id and of a desktop entry.
MaxStr == 2

\* The events the reader thread reads.
MaxEvents == 3

\* The windows of the registry a batch of layout changes is applied to.
LayWin == 2

\* The workspaces a window moves between.
MvWs == 2

\* The windows of a snapshot the buttons are built from, the ignore rules
\* of the settings, and the events that wait in the channel of the loop.
BtnWin == 1

MaxRules == 1

BtnQueue == 1

\* The windows of a snapshot with focused windows that every matching path
\* is checked over.
PathWin == 2

\* The events waiting for run_event_loop when a notification is added.
MaxQueue == 2

\* The inputs of generate_snapshot: the windows of SortSpec, the windows and
\* the workspaces of HighlightSpec.
SortWin == 3
HlWin == 2
HlWs == 2

\* The windows of FilterSpec.
FilterWin == 2

\* The windows of FocusChangeSpec.
FcWin == 2

\* The workspaces of ActivateSpec.
AcWs == 2

---------------------------------------------------------------------------
(* Option and BTreeMap helpers.                                            *)

None == <<>>
Some(x) == <<x>>
IsSome(o) == o # <<>>
Unwrap(o) == o[1]

EmptyMap == [k \in {} |-> k]

HasKey(m, k) == k \in DOMAIN m

Get(m, k) == IF k \in DOMAIN m THEN Some(m[k]) ELSE None

\* A bug Insert could have: a key the map holds keeps its value (or_insert).
Insert_KeepExisting(m, k, v) ==
    [x \in (DOMAIN m) \cup {k} |-> IF x \in DOMAIN m THEN m[x] ELSE v]

Insert(m, k, v) == [x \in (DOMAIN m) \cup {k} |-> IF x = k THEN v ELSE m[x]]

\* A bug Remove could have: the smallest key goes instead of the key named.
Remove_First(m, k) ==
    IF DOMAIN m = {} THEN m
    ELSE [x \in (DOMAIN m) \ {CHOOSE a \in DOMAIN m : \A b \in DOMAIN m : a <= b} |-> m[x]]

Remove(m, k) == [x \in (DOMAIN m) \ {k} |-> m[x]]

Min(S) == CHOOSE x \in S : \A y \in S : x <= y

RECURSIVE Ascending(_)
Ascending(S) == IF S = {} THEN <<>> ELSE <<Min(S)>> \o Ascending(S \ {Min(S)})

\* iter().map(|w| (w.id, w)).collect(): a later element replaces an earlier
\* one with the same id.
RECURSIVE Collect(_)
Collect(vec) ==
    IF vec = <<>> THEN EmptyMap
    ELSE LET n == Len(vec)
         IN Insert(Collect(SubSeq(vec, 1, n - 1)), vec[n].id, vec[n])

---------------------------------------------------------------------------
(* The state of WindowTracker and of one run of run_window_stream.         *)

VARIABLES
    state,                       \* variant of Option<TrackerState>
    wins_vec,                    \* the Vec held by WindowsOnly
    ws_vec,                      \* the Vec held by WorkspacesOnly
    windows,                     \* Ready.windows
    workspaces,                  \* Ready.workspaces
    active_per_workspace,        \* Ready.active_per_workspace
    last_focused_per_workspace,  \* Ready.last_focused_per_workspace
    filter_workspace,            \* argument of run_window_stream
    event,                       \* kind of the event process_event handled last
    result,                      \* what that call returned: None or Some(snapshot)
    highlight_window,            \* highlight_window of the last generate_snapshot
    seen_windows,                \* history: a WindowsChanged has been processed
    seen_workspaces,             \* history: a WorkspacesChanged has been processed
    previous_snapshot,           \* ModuleInstance.previous_snapshot
    buttons,                     \* keys of ModuleInstance.buttons
    urgent,                      \* the buttons that carry the style class "urgent"
    settings,                    \* the notification settings
    parents,                     \* the process table ProcessInfo::query reads
    notification,                \* the notification handle_notification was given
    pc,                          \* where handle_notification stands
    process_id,                  \* the process id the ancestry walk stands at
    matched,                     \* local matched of handle_notification
    lookups,                     \* history: the calls of ProcessInfo::query
    reader,                      \* the thread of run_window_stream
    snapshot_queue,              \* the channel of WindowEventStream
    forwarder,                   \* the task forward_window_updates
    event_queue,                 \* the channel of create_event_stream
    processed,                   \* history: what process_event returned, event by event
    received,                    \* history: the snapshots next_snapshot has returned
    display_filter               \* display_filter of run_event_loop

tracker == <<state, wins_vec, ws_vec, windows, workspaces,
             active_per_workspace, last_focused_per_workspace>>

source == <<tracker, filter_workspace, event, result, highlight_window,
            seen_windows, seen_workspaces>>

instance == <<previous_snapshot, buttons, urgent>>

matcher == <<settings, parents, notification, pc, process_id, matched, lookups>>

stream == <<reader, snapshot_queue, forwarder, event_queue, processed, received>>

vars == <<state, wins_vec, ws_vec, windows, workspaces, active_per_workspace,
          last_focused_per_workspace, filter_workspace, event, result,
          highlight_window, seen_windows, seen_workspaces,
          previous_snapshot, buttons, urgent, settings, parents, notification,
          pc, process_id, matched, lookups, reader, snapshot_queue, forwarder,
          event_queue, processed, received, display_filter>>

---------------------------------------------------------------------------
(* generate_snapshot.                                                      *)

IsFloating(w) == w.pos = None

\* pos_in_scrolling_layout.unwrap_or_default()
PosOrDefault(w) == IF w.pos = None THEN <<0, 0>> ELSE Unwrap(w.pos)

\* Ord::cmp on integers and on bool (false < true).
CmpInt(a, b) == IF a < b THEN "Less" ELSE IF a > b THEN "Greater" ELSE "Equal"

CmpBool(a, b) == CmpInt(IF a THEN 1 ELSE 0, IF b THEN 1 ELSE 0)

\* Ordering::then_with
ThenWith(o, next) == IF o = "Equal" THEN next ELSE o

\* A bug ComparePairs could have: the tiled-before-floating step is missing.
ComparePairs_NoFloating(a, b) ==
    ThenWith(CmpInt(a.workspace.idx, b.workspace.idx),
    ThenWith(ThenWith(CmpInt(PosOrDefault(a.window)[1], PosOrDefault(b.window)[1]),
                      CmpInt(PosOrDefault(a.window)[2], PosOrDefault(b.window)[2])),
             CmpInt(a.window.id, b.window.id)))

\* The comparator handed to sort_by; a pair is [window, workspace].
ComparePairs(a, b) ==
    ThenWith(CmpInt(a.workspace.idx, b.workspace.idx),
    ThenWith(CmpBool(IsFloating(a.window), IsFloating(b.window)),
    ThenWith(ThenWith(CmpInt(PosOrDefault(a.window)[1], PosOrDefault(b.window)[1]),
                      CmpInt(PosOrDefault(a.window)[2], PosOrDefault(b.window)[2])),
             CmpInt(a.window.id, b.window.id))))

\* slice::sort_by is a stable sort: an element goes behind every element
\* that does not compare Greater than it.
InsertStable(sorted, x) ==
    LET after == {i \in 1..Len(sorted) : ComparePairs(sorted[i], x) = "Greater"}
        at == IF after = {} THEN Len(sorted) + 1 ELSE Min(after)
    IN SubSeq(sorted, 1, at - 1) \o <<x>> \o SubSeq(sorted, at, Len(sorted))

RECURSIVE SortBy(_)
SortBy(seq) ==
    IF seq = <<>> THEN <<>>
    ELSE InsertStable(SortBy(SubSeq(seq, 1, Len(seq) - 1)), seq[Len(seq)])

\* active_workspace_per_output: collecting into the HashMap keeps, for an
\* output, the last active workspace in id order.
ActiveWorkspacePerOutput(wss) ==
    LET act == {k \in DOMAIN wss : wss[k].is_active /\ IsSome(wss[k].output)}
        outs == {Unwrap(wss[k].output) : k \in act}
    IN [o \in outs |->
          CHOOSE k \in act : /\ Unwrap(wss[k].output) = o
                             /\ \A j \in act : Unwrap(wss[j].output) = o => j <= k]

IsActiveOnOutput(wss, ws) ==
    /\ IsSome(ws.output)
    /\ HasKey(ActiveWorkspacePerOutput(wss), Unwrap(ws.output))
    /\ ActiveWorkspacePerOutput(wss)[Unwrap(ws.output)] = ws.id

\* A bug IsCandidate could have: filter_workspace is not looked at.
IsCandidate_NoFilter(wins, wss, filter, w) ==
    /\ IsSome(w.workspace_id)
    /\ HasKey(wss, Unwrap(w.workspace_id))

\* A bug IsCandidate could have: the windows of inactive workspaces are
\* dropped whatever filter_workspace is.
IsCandidate_AlwaysFilter(wins, wss, filter, w) ==
    /\ IsSome(w.workspace_id)
    /\ HasKey(wss, Unwrap(w.workspace_id))
    /\ IsActiveOnOutput(wss, wss[Unwrap(w.workspace_id)])

\* The filter_map closure: does the window make it into the candidate list.
IsCandidate(wins, wss, filter, w) ==
    /\ IsSome(w.workspace_id)
    /\ HasKey(wss, Unwrap(w.workspace_id))
    /\ filter => IsActiveOnOutput(wss, wss[Unwrap(w.workspace_id)])

\* window_workspace_pairs before the sort, in the order of windows.values().
CandidatePairs(wins, wss, filter) ==
    LET ids == Ascending({k \in DOMAIN wins : IsCandidate(wins, wss, filter, wins[k])})
    IN [i \in 1..Len(ids) |->
          [window |-> wins[ids[i]],
           workspace |-> wss[Unwrap(wins[ids[i]].workspace_id)]]]

\* A bug WindowWorkspacePairs could have: the filtered list is left in the
\* order of windows.values().
WindowWorkspacePairs_FilteredUnsorted(wins, wss, filter) ==
    IF filter THEN CandidatePairs(wins, wss, filter)
    ELSE SortBy(CandidatePairs(wins, wss, filter))

WindowWorkspacePairs(wins, wss, filter) == SortBy(CandidatePairs(wins, wss, filter))

\* workspaces.values().find(|ws| ws.is_active).map(|ws| ws.id)
ActiveWorkspace(wss) ==
    IF \E k \in DOMAIN wss : wss[k].is_active
    THEN Some(Min({k \in DOMAIN wss : wss[k].is_active}))
    ELSE None

OverviewActive(wss, apw) ==
    IF IsSome(ActiveWorkspace(wss)) THEN Get(apw, Unwrap(ActiveWorkspace(wss))) ELSE None

\* A bug HasFocused could have: only the first candidate is looked at.
HasFocused_FirstOnly(pairs) == Len(pairs) > 0 /\ pairs[1].window.is_focused

HasFocused(pairs) == \E i \in 1..Len(pairs) : pairs[i].window.is_focused

\* Option::or_else
OrElse(o, alt) == IF IsSome(o) THEN o ELSE alt

\* A bug FirstOnWorkspace could have: the third rule of the chain never
\* yields a window.
FirstOnWorkspace_Skipped(pairs, ws_id) == None

\* A bug FirstOnWorkspace could have: the first candidate is taken, on
\* whatever workspace it is.
FirstOnWorkspace_Anywhere(pairs, ws_id) ==
    IF pairs = <<>> THEN None ELSE Some(pairs[1].window.id)

\* iter().find(|pair| pair.workspace.id == active_ws).map(|pair| pair.window.id)
FirstOnWorkspace(pairs, ws_id) ==
    LET on == {i \in 1..Len(pairs) : pairs[i].workspace.id = ws_id}
    IN IF on = {} THEN None ELSE Some(pairs[Min(on)].window.id)

\* A bug HighlightWindow could have: the last focused window is asked before
\* the overview-active one.
HighlightWindow_LastFirst(pairs, wss, apw, lfw) ==
    IF ~HasFocused(pairs)
    THEN OrElse(IF IsSome(ActiveWorkspace(wss))
                THEN Get(lfw, Unwrap(ActiveWorkspace(wss))) ELSE None,
         OrElse(OverviewActive(wss, apw),
                IF IsSome(ActiveWorkspace(wss))
                THEN FirstOnWorkspace(pairs, Unwrap(ActiveWorkspace(wss))) ELSE None))
    ELSE None

\* A bug HighlightWindow could have: the chain runs although a candidate is
\* focused.
HighlightWindow_NoGuard(pairs, wss, apw, lfw) ==
    OrElse(OverviewActive(wss, apw),
    OrElse(IF IsSome(ActiveWorkspace(wss))
           THEN Get(lfw, Unwrap(ActiveWorkspace(wss))) ELSE None,
           IF IsSome(ActiveWorkspace(wss))
           THEN FirstOnWorkspace(pairs, Unwrap(ActiveWorkspace(wss))) ELSE None))

\* A bug HighlightWindow could have: the last focused window is never asked.
HighlightWindow_NoLastFocused(pairs, wss, apw, lfw) ==
    IF ~HasFocused(pairs)
    THEN OrElse(OverviewActive(wss, apw),
                IF IsSome(ActiveWorkspace(wss))
                THEN FirstOnWorkspace(pairs, Unwrap(ActiveWorkspace(wss))) ELSE None)
    ELSE None

HighlightWindow(pairs, wss, apw, lfw) ==
    IF ~HasFocused(pairs)
    THEN OrElse(OverviewActive(wss, apw),
         OrElse(IF IsSome(ActiveWorkspace(wss))
                THEN Get(lfw, Unwrap(ActiveWorkspace(wss))) ELSE None,
                IF IsSome(ActiveWorkspace(wss))
                THEN FirstOnWorkspace(pairs, Unwrap(ActiveWorkspace(wss))) ELSE None))
    ELSE None

\* A bug EmitWindowInfo could have: the id is not compared, so every
\* unfocused window is marked once there is a highlight window.
EmitWindowInfo_AnyUnfocused(pair, hl) ==
    [inner |-> IF ~pair.window.is_focused /\ IsSome(hl)
               THEN [pair.window EXCEPT !.is_focused = TRUE]
               ELSE pair.window,
     output_name |-> pair.workspace.output]

\* The closing map over the sorted pairs: the copy of the window, its
\* is_focused set when it is the highlight window, and the output name.
EmitWindowInfo(pair, hl) ==
    [inner |-> IF ~pair.window.is_focused /\ Some(pair.window.id) = hl
               THEN [pair.window EXCEPT !.is_focused = TRUE]
               ELSE pair.window,
     output_name |-> pair.workspace.output]

GenerateSnapshot(wins, wss, apw, lfw, filter) ==
    LET pairs == WindowWorkspacePairs(wins, wss, filter)
        hl == HighlightWindow(pairs, wss, apw, lfw)
    IN [i \in 1..Len(pairs) |-> EmitWindowInfo(pairs[i], hl)]

---------------------------------------------------------------------------
(* process_event: one action per event kind.  Each action is the whole     *)
(* call: the match arm, then the snapshot that closes the function.        *)

\* A bug Returned could have: the snapshot is built whatever the variant.
Returned_Always(st, wins, wss, apw, lfw, filter) ==
    Some(GenerateSnapshot(wins, wss, apw, lfw, filter))

\* The tail of process_event: Some(snapshot) when the state is Ready.
Returned(st, wins, wss, apw, lfw, filter) ==
    IF st = "Ready" THEN Some(GenerateSnapshot(wins, wss, apw, lfw, filter)) ELSE None

Return(kind) ==
    /\ event' = kind
    /\ result' = Returned(state', windows', workspaces', active_per_workspace',
                          last_focused_per_workspace', filter_workspace)
    /\ highlight_window' =
           IF state' = "Ready"
           THEN HighlightWindow(WindowWorkspacePairs(windows', workspaces', filter_workspace),
                                workspaces', active_per_workspace',
                                last_focused_per_workspace')
           ELSE None
    /\ UNCHANGED <<filter_workspace, instance, matcher, stream, display_filter>>

\* A bug OnWindowsChanged could have: the WorkspacesOnly arm is missing, so
\* the workspaces seen so far are dropped.
OnWindowsChanged_NoMerge(st) == IF st = "Ready" THEN "Ready" ELSE "WindowsOnly"

\* A bug OnWindowsChanged could have: the Ready arm is missing, so a list
\* that arrives in Ready falls into the catch-all arm.
OnWindowsChanged_Revert(st) ==
    IF st = "WorkspacesOnly" THEN "Ready" ELSE "WindowsOnly"

\* The variant the WindowsChanged arm leaves: its three match arms.
OnWindowsChanged(st) ==
    IF st = "WorkspacesOnly" THEN "Ready"
    ELSE IF st = "Ready" THEN "Ready"
    ELSE "WindowsOnly"

\* A bug WindowsChanged could have: in Ready the list is added to the old
\* map (extend) instead of replacing it.
WindowsChanged_KeepOld(wins) ==
    /\ state' = OnWindowsChanged(state)
    /\ IF state = "WorkspacesOnly"
       THEN /\ windows' = Collect(wins)
            /\ workspaces' = Collect(ws_vec)
            /\ active_per_workspace' = EmptyMap
            /\ last_focused_per_workspace' = EmptyMap
            /\ ws_vec' = <<>>
            /\ UNCHANGED wins_vec
       ELSE IF state = "Ready"
       THEN /\ windows' = [k \in DOMAIN windows \cup DOMAIN Collect(wins) |->
                              IF k \in DOMAIN Collect(wins)
                              THEN Collect(wins)[k] ELSE windows[k]]
            /\ UNCHANGED <<wins_vec, ws_vec, workspaces, active_per_workspace,
                           last_focused_per_workspace>>
       ELSE /\ wins_vec' = wins
            /\ UNCHANGED <<ws_vec, windows, workspaces, active_per_workspace,
                           last_focused_per_workspace>>
    /\ seen_windows' = TRUE
    /\ UNCHANGED seen_workspaces
    /\ Return("WindowsChanged")

WindowsChanged(wins) ==
    /\ state' = OnWindowsChanged(state)
    /\ IF state = "WorkspacesOnly"
       THEN /\ windows' = Collect(wins)
            /\ workspaces' = Collect(ws_vec)
            /\ active_per_workspace' = EmptyMap
            /\ last_focused_per_workspace' = EmptyMap
            /\ ws_vec' = <<>>
            /\ UNCHANGED wins_vec
       ELSE IF state = "Ready"
       THEN /\ windows' = Collect(wins)
            /\ UNCHANGED <<wins_vec, ws_vec, workspaces, active_per_workspace,
                           last_focused_per_workspace>>
       ELSE /\ wins_vec' = wins
            /\ UNCHANGED <<ws_vec, windows, workspaces, active_per_workspace,
                           last_focused_per_workspace>>
    /\ seen_windows' = TRUE
    /\ UNCHANGED seen_workspaces
    /\ Return("WindowsChanged")

\* A bug OnWorkspacesChanged could have: the Ready arm is missing, so Ready
\* falls into the catch-all arm.
OnWorkspacesChanged_Revert(st) ==
    IF st = "WindowsOnly" THEN "Ready" ELSE "WorkspacesOnly"

\* A bug OnWorkspacesChanged could have: the WindowsOnly arm is missing, so
\* the windows seen so far are dropped.
OnWorkspacesChanged_NoMerge(st) == IF st = "Ready" THEN "Ready" ELSE "WorkspacesOnly"

\* The variant the WorkspacesChanged arm leaves: its three match arms.
OnWorkspacesChanged(st) ==
    IF st = "WindowsOnly" THEN "Ready"
    ELSE IF st = "Ready" THEN "Ready"
    ELSE "WorkspacesOnly"

WorkspacesChanged(wss) ==
    /\ state' = OnWorkspacesChanged(state)
    /\ IF state = "WindowsOnly"
       THEN /\ windows' = Collect(wins_vec)
            /\ workspaces' = Collect(wss)
            /\ active_per_workspace' = EmptyMap
            /\ last_focused_per_workspace' = EmptyMap
            /\ wins_vec' = <<>>
            /\ UNCHANGED ws_vec
       ELSE IF state = "Ready"
       THEN /\ workspaces' = Collect(wss)
            /\ UNCHANGED <<wins_vec, ws_vec, windows, active_per_workspace,
                           last_focused_per_workspace>>
       ELSE /\ ws_vec' = wss
            /\ UNCHANGED <<wins_vec, windows, workspaces, active_per_workspace,
                           last_focused_per_workspace>>
    /\ seen_workspaces' = TRUE
    /\ UNCHANGED seen_windows
    /\ Return("WorkspacesChanged")

WindowClosed(id) ==
    /\ IF state = "Ready"
       THEN windows' = Remove(windows, id)
       ELSE UNCHANGED windows
    /\ UNCHANGED <<state, wins_vec, ws_vec, workspaces, active_per_workspace,
                   last_focused_per_workspace, seen_windows, seen_workspaces>>
    /\ Return("WindowClosed")

\* A bug ClearFocus could have: nothing is cleared.
ClearFocus_Keep(wins) == wins

\* for w in windows.values_mut() { w.is_focused = false; }
ClearFocus(wins) == [k \in DOMAIN wins |-> [wins[k] EXCEPT !.is_focused = FALSE]]

\* A bug WindowOpenedOrChanged could have: the window is inserted whatever
\* the state, before the registry is Ready.
WindowOpenedOrChanged_AnyState(window) ==
    /\ windows' = Insert(IF window.is_focused THEN ClearFocus(windows) ELSE windows,
                         window.id, window)
    /\ UNCHANGED <<state, wins_vec, ws_vec, workspaces, active_per_workspace,
                   last_focused_per_workspace, seen_windows, seen_workspaces>>
    /\ Return("WindowOpenedOrChanged")

WindowOpenedOrChanged(window) ==
    /\ IF state = "Ready"
       THEN windows' = Insert(IF window.is_focused THEN ClearFocus(windows) ELSE windows,
                              window.id, window)
       ELSE UNCHANGED windows
    /\ UNCHANGED <<state, wins_vec, ws_vec, workspaces, active_per_workspace,
                   last_focused_per_workspace, seen_windows, seen_workspaces>>
    /\ Return("WindowOpenedOrChanged")

\* windows.values().find(|w| w.is_focused).map(|w| w.id)
OldFocused(wins) ==
    IF \E k \in DOMAIN wins : wins[k].is_focused
    THEN Some(Min({k \in DOMAIN wins : wins[k].is_focused}))
    ELSE None

\* A bug RememberOld could have: the window that held focus is not
\* remembered.
RememberOld_Skip(wins, lfw) == lfw

\* The first if-let of the WindowFocusChanged arm.
RememberOld(wins, lfw) ==
    IF IsSome(OldFocused(wins)) /\ IsSome(wins[Unwrap(OldFocused(wins))].workspace_id)
    THEN Insert(lfw, Unwrap(wins[Unwrap(OldFocused(wins))].workspace_id),
                Unwrap(OldFocused(wins)))
    ELSE lfw

\* A bug SetFocus could have: the flag is set on the window named and is not
\* cleared on the others.
SetFocus_NoClear(wins, id) ==
    [k \in DOMAIN wins |->
        [wins[k] EXCEPT !.is_focused = (wins[k].is_focused \/ Some(wins[k].id) = id)]]

\* window.is_focused = Some(window.id) == id
SetFocus(wins, id) == [k \in DOMAIN wins |-> [wins[k] EXCEPT !.is_focused = (Some(wins[k].id) = id)]]

\* The last if-let of the WindowFocusChanged arm.
RememberNew(wins, lfw, id) ==
    IF IsSome(id) /\ HasKey(wins, Unwrap(id)) /\ IsSome(wins[Unwrap(id)].workspace_id)
    THEN Insert(lfw, Unwrap(wins[Unwrap(id)].workspace_id), Unwrap(id))
    ELSE lfw

WindowFocusChanged(id) ==
    /\ IF state = "Ready"
       THEN /\ windows' = SetFocus(windows, id)
            /\ last_focused_per_workspace' =
                   RememberNew(SetFocus(windows, id),
                               RememberOld(windows, last_focused_per_workspace), id)
       ELSE UNCHANGED <<windows, last_focused_per_workspace>>
    /\ UNCHANGED <<state, wins_vec, ws_vec, workspaces, active_per_workspace,
                   seen_windows, seen_workspaces>>
    /\ Return("WindowFocusChanged")

\* workspaces.get(&id).and_then(|ws| ws.output.clone())
ActivatedOutput(wss, id) == IF HasKey(wss, id) THEN wss[id].output ELSE None

\* A bug Activate could have: the output is not compared, activation is
\* global.
Activate_Global(wss, id) ==
    [k \in DOMAIN wss |-> [wss[k] EXCEPT !.is_active = (wss[k].id = id)]]

\* A bug Activate could have: the activated workspace is set active and the
\* others of its output are not cleared.
Activate_NoDeactivate(wss, id) ==
    [k \in DOMAIN wss |->
        IF wss[k].id = id THEN [wss[k] EXCEPT !.is_active = TRUE] ELSE wss[k]]

\* The for loop of the WorkspaceActivated arm.
Activate(wss, id) ==
    [k \in DOMAIN wss |->
        IF wss[k].output = ActivatedOutput(wss, id)
        THEN [wss[k] EXCEPT !.is_active = (wss[k].id = id)]
        ELSE wss[k]]

WorkspaceActivated(id) ==
    /\ IF state = "Ready"
       THEN workspaces' = Activate(workspaces, id)
       ELSE UNCHANGED workspaces
    /\ UNCHANGED <<state, wins_vec, ws_vec, windows, active_per_workspace,
                   last_focused_per_workspace, seen_windows, seen_workspaces>>
    /\ Return("WorkspaceActivated")

WorkspaceActiveWindowChanged(workspace_id, active_window_id) ==
    /\ IF state = "Ready"
       THEN active_per_workspace' =
                IF IsSome(active_window_id)
                THEN Insert(active_per_workspace, workspace_id, Unwrap(active_window_id))
                ELSE Remove(active_per_workspace, workspace_id)
       ELSE UNCHANGED active_per_workspace
    /\ UNCHANGED <<state, wins_vec, ws_vec, windows, workspaces,
                   last_focused_per_workspace, seen_windows, seen_workspaces>>
    /\ Return("WorkspaceActiveWindowChanged")

RECURSIVE ApplyLayouts_StopsAtUnknown(_, _)
RECURSIVE ApplyLayouts(_, _)

\* A bug ApplyLayouts could have: the loop is left at the first change
\* that names an unknown window.
ApplyLayouts_StopsAtUnknown(wins, changes) ==
    IF changes = <<>> THEN wins
    ELSE LET c == Head(changes)
         IN IF HasKey(wins, c[1])
            THEN ApplyLayouts_StopsAtUnknown([wins EXCEPT ![c[1]].pos = c[2]],
                                             Tail(changes))
            ELSE wins

\* The for loop over changes; a change is <<win_id, layout>>.
ApplyLayouts(wins, changes) ==
    IF changes = <<>> THEN wins
    ELSE LET c == Head(changes)
         IN ApplyLayouts(IF HasKey(wins, c[1])
                         THEN [wins EXCEPT ![c[1]].pos = c[2]]
                         ELSE wins,
                         Tail(changes))

WindowLayoutsChanged(changes) ==
    /\ IF state = "Ready"
       THEN windows' = ApplyLayouts(windows, changes)
       ELSE UNCHANGED windows
    /\ UNCHANGED <<state, wins_vec, ws_vec, workspaces, active_per_workspace,
                   last_focused_per_workspace, seen_windows, seen_workspaces>>
    /\ Return("WindowLayoutsChanged")

\* A bug OtherEvent could have: the override is written into the registry's
\* window instead of the emitted copy.
OtherEvent_WriteBack ==
    /\ windows' =
           [k \in DOMAIN windows |->
               IF /\ state = "Ready"
                  /\ IsCandidate(windows, workspaces, filter_workspace, windows[k])
                  /\ Some(k) = HighlightWindow(
                                   WindowWorkspacePairs(windows, workspaces, filter_workspace),
                                   workspaces, active_per_workspace,
                                   last_focused_per_workspace)
               THEN [windows[k] EXCEPT !.is_focused = TRUE]
               ELSE windows[k]]
    /\ UNCHANGED <<state, wins_vec, ws_vec, workspaces, active_per_workspace,
                   last_focused_per_workspace, seen_windows, seen_workspaces>>
    /\ Return("Other")

\* Every other event kind: the `_ => {}` arm.
OtherEvent ==
    /\ UNCHANGED <<tracker, seen_windows, seen_workspaces>>
    /\ Return("Other")

\* ---------------------------------------------------------------------
\* ModuleInstance: the consumer of the snapshots and of the notifications.
\* A WindowInfo of a snapshot is a record of the fields the consumer
\* reads: id, is_focused, pid and app_id.  A string is a sequence of
\* characters.

\* A bug ToLowercase could have: the string is compared as it is written.
ToLowercase_AsWritten(s) == s

\* str::to_lowercase over the alphabet of the model.
ToLowercase(s) == [i \in DOMAIN s |-> IF s[i] = "A" THEN "a" ELSE s[i]]

\* str::contains('.').
ContainsDot(s) == \E i \in DOMAIN s : s[i] = "."

\* str::split('.').next_back(): what follows the last dot, the whole
\* string when it has none.
NextBack(s) ==
    IF ContainsDot(s)
    THEN LET last == CHOOSE i \in DOMAIN s :
                        s[i] = "." /\ \A j \in DOMAIN s : j > i => s[j] # "."
         IN  SubSeq(s, last + 1, Len(s))
    ELSE s

\* Settings::notifications_app_map(..).unwrap_or(desktop_entry).
MappedEntry(desktop_entry) ==
    LET mapped == Get(settings.map_app_ids, desktop_entry)
    IN  IF IsSome(mapped) THEN Unwrap(mapped) ELSE desktop_entry

\* ProcessWindowMap::build: the windows that expose a pid, collected into
\* a HashMap; of two windows with one pid the later one stays.
Build(snapshot) ==
    LET pids == {Unwrap(snapshot[i].pid) : i \in {j \in DOMAIN snapshot : IsSome(snapshot[j].pid)}}
    IN  [p \in pids |->
            LET last == CHOOSE i \in DOMAIN snapshot :
                            /\ snapshot[i].pid = Some(p)
                            /\ \A j \in DOMAIN snapshot :
                                  snapshot[j].pid = Some(p) => j <= i
            IN  snapshot[last]]

\* ProcessWindowMap::lookup.
Lookup(process_map, p) == Get(process_map, p)

\* ProcessInfo::query(process_id): the parent, no parent, or a failure
\* for an id the process table cannot resolve.
Query(p) ==
    IF HasKey(parents, p) THEN parents[p] ELSE [ok |-> FALSE, parent_id |-> None]

\* A bug DesktopEntryMarks could have: the pass does not ask whether
\* matching by desktop entry is enabled.
DesktopEntryMarks_AlwaysEnabled(snapshot, n) ==
    IF n.desktop_entry = None THEN {}
    ELSE
      LET fuzzy_enabled == settings.use_fuzzy_matching
          mapped_entry  == MappedEntry(Unwrap(n.desktop_entry))
          entry_lower   == ToLowercase(mapped_entry)
          entry_suffix  == ToLowercase(NextBack(mapped_entry))
          named         == {i \in DOMAIN snapshot : IsSome(snapshot[i].app_id)}
          app(i)        == Unwrap(snapshot[i].app_id)
          exact         == {i \in named : app(i) = mapped_entry}
          exact_marks   == {snapshot[i].id : i \in {j \in exact : snapshot[j].id \in buttons}}
          fuzzy_matches ==
              {snapshot[i].id : i \in
                 {j \in named \ exact :
                    /\ fuzzy_enabled
                    /\ \/ ToLowercase(app(j)) = entry_lower
                       \/ /\ ContainsDot(app(j))
                          /\ ToLowercase(NextBack(app(j))) = entry_suffix}}
      IN  IF exact_marks # {} THEN exact_marks ELSE fuzzy_matches \cap buttons

\* The pass over the windows by desktop entry: the buttons it marks.
DesktopEntryMarks(snapshot, n) ==
    IF ~settings.use_desktop_entry THEN {}
    ELSE IF n.desktop_entry = None THEN {}
    ELSE
      LET fuzzy_enabled == settings.use_fuzzy_matching
          mapped_entry  == MappedEntry(Unwrap(n.desktop_entry))
          entry_lower   == ToLowercase(mapped_entry)
          entry_suffix  == ToLowercase(NextBack(mapped_entry))
          named         == {i \in DOMAIN snapshot : IsSome(snapshot[i].app_id)}
          app(i)        == Unwrap(snapshot[i].app_id)
          exact         == {i \in named : app(i) = mapped_entry}
          exact_marks   == {snapshot[i].id : i \in {j \in exact : snapshot[j].id \in buttons}}
          fuzzy_matches ==
              {snapshot[i].id : i \in
                 {j \in named \ exact :
                    /\ fuzzy_enabled
                    /\ \/ ToLowercase(app(j)) = entry_lower
                       \/ /\ ContainsDot(app(j))
                          /\ ToLowercase(NextBack(app(j))) = entry_suffix}}
      IN  IF exact_marks # {} THEN exact_marks ELSE fuzzy_matches \cap buttons

\* A bug WalkMarks could have: the window of the process map is marked
\* whether it is focused or not.
WalkMarks_IgnoresFocus(snapshot) ==
    LET window == Lookup(Build(snapshot), process_id)
    IN  IF IsSome(window) /\ Unwrap(window).id \in buttons
        THEN {Unwrap(window).id}
        ELSE {}

\* What one turn of the loop marks: the window of the process map at
\* process_id, when it is not focused and has a button.
WalkMarks(snapshot) ==
    LET window == Lookup(Build(snapshot), process_id)
    IN  IF IsSome(window) /\ ~Unwrap(window).is_focused /\ Unwrap(window).id \in buttons
        THEN {Unwrap(window).id}
        ELSE {}

\* A bug NextProcess could have: a failed lookup is tried again.
NextProcess_RetriesOnFailure(p, answer) ==
    IF answer.ok THEN answer.parent_id ELSE Some(p)

\* The match on the answer of ProcessInfo::query: the process id the walk
\* goes on with, none when the loop is left.
NextProcess(p, answer) ==
    IF answer.ok THEN answer.parent_id ELSE None

\* handle_notification up to the loop: without a snapshot it returns; with
\* a process id it enters the loop; without one it goes to the pass by
\* desktop entry.
Matching(n) ==
    /\ pc = "idle"
    /\ notification' = Some(n)
    /\ IF previous_snapshot = None
       THEN UNCHANGED <<urgent, pc, process_id, matched>>
       ELSE IF IsSome(n.process_id)
       THEN /\ pc' = "walk"
            /\ process_id' = Unwrap(n.process_id)
            /\ matched' = FALSE
            /\ UNCHANGED urgent
       ELSE /\ urgent' = urgent \cup DesktopEntryMarks(Unwrap(previous_snapshot), n)
            /\ UNCHANGED <<pc, process_id, matched>>
    /\ UNCHANGED <<previous_snapshot, buttons, settings, parents, lookups>>

\* The arm of run_event_loop for a notification, the event taken as read.
HandleNotification(n) ==
    /\ Matching(n)
    /\ UNCHANGED <<source, stream, display_filter>>

\* A bug Walk could have: the pass by desktop entry follows the loop
\* whether or not the loop has marked a button.
Walk_FallsThrough ==
    /\ pc = "walk"
    /\ LET snapshot == Unwrap(previous_snapshot)
           marks    == WalkMarks(snapshot)
           next     == NextProcess(process_id, Query(process_id))
       IN  /\ lookups' = lookups + 1
           /\ matched' = (matched \/ marks # {})
           /\ IF IsSome(next)
              THEN /\ process_id' = Unwrap(next)
                   /\ urgent' = urgent \cup marks
                   /\ UNCHANGED pc
              ELSE /\ pc' = "idle"
                   /\ urgent' = urgent \cup marks
                                  \cup DesktopEntryMarks(snapshot, Unwrap(notification))
                   /\ UNCHANGED process_id
    /\ UNCHANGED <<previous_snapshot, buttons, settings, parents, notification>>
    /\ UNCHANGED <<source, stream, display_filter>>

\* One turn of the loop of handle_notification, and what follows the loop
\* when this turn leaves it.
Walk ==
    /\ pc = "walk"
    /\ LET snapshot == Unwrap(previous_snapshot)
           marks    == WalkMarks(snapshot)
           now      == matched \/ marks # {}
           next     == NextProcess(process_id, Query(process_id))
       IN  /\ lookups' = lookups + 1
           /\ IF IsSome(next)
              THEN /\ process_id' = Unwrap(next)
                   /\ matched' = now
                   /\ urgent' = urgent \cup marks
                   /\ UNCHANGED pc
              ELSE /\ pc' = "idle"
                   /\ matched' = now
                   /\ urgent' = IF now
                                THEN urgent \cup marks
                                ELSE urgent \cup DesktopEntryMarks(snapshot, Unwrap(notification))
                   /\ UNCHANGED process_id
    /\ UNCHANGED <<previous_snapshot, buttons, settings, parents, notification>>
    /\ UNCHANGED <<source, stream, display_filter>>

\* screen::DisplayFilter: every output, or the one output of the bar.
ShowAll == <<"ShowAll">>

Only(output_name) == <<"Only", output_name>>

\* DisplayFilter::should_display(output)
ShouldDisplay(filter, output) == filter = ShowAll \/ filter = Only(output)

\* Option<&str>::unwrap_or_default
UnwrapOrDefault(o) == IF IsSome(o) THEN Unwrap(o) ELSE ""

\* str::contains
Contains(t, sub) ==
    \E k \in 0..(Len(t) - Len(sub)) : SubSeq(t, k + 1, k + Len(sub)) = sub

\* Regex::is_match, a regex being the set of the strings it matches.
IsMatch(regex, t) == t \in regex

\* The body of the loop of should_ignore: a field the rule does not have
\* matches, and every field of the rule has to match.
RuleMatches(rule, app_id, title, workspace_id) ==
    /\ rule.app_id = None \/ app_id = rule.app_id
    /\ rule.title = None \/ title = rule.title
    /\ rule.title_contains = None
          \/ (IsSome(title) /\ Contains(Unwrap(title), Unwrap(rule.title_contains)))
    /\ rule.title_regex = None
          \/ (IsSome(title) /\ IsMatch(Unwrap(rule.title_regex), Unwrap(title)))
    /\ rule.workspace = None \/ workspace_id = rule.workspace

\* Settings::should_ignore
ShouldIgnore(ignore_rules, app_id, title, workspace_id) ==
    \E i \in DOMAIN ignore_rules :
        RuleMatches(ignore_rules[i], app_id, title, workspace_id)

\* The filter closure of handle_window_update: the window is on an output
\* the filter displays and, when it has an app_id, no rule ignores it.
Displayed(snapshot, filter) ==
    {i \in DOMAIN snapshot :
        /\ ShouldDisplay(filter, UnwrapOrDefault(snapshot[i].output_name))
        /\ ~(/\ IsSome(snapshot[i].app_id)
             /\ ShouldIgnore(settings.ignore_rules, snapshot[i].app_id,
                             snapshot[i].title, snapshot[i].workspace_id))}

\* determine_display_filter: ShowAll when the settings show every output,
\* else what the outputs of the compositor and the monitor of the bar give.
DetermineDisplayFilter(answer) ==
    IF settings.show_all_outputs THEN ShowAll ELSE answer

\* A bug HandleWindowUpdate could have: every window update rebuilds the
\* buttons, so no urgent mark outlives it.
HandleWindowUpdate_Rebuilds(snapshot, shown) ==
    /\ pc = "idle"
    /\ buttons' = {snapshot[i].id : i \in shown}
    /\ urgent' = {}
    /\ previous_snapshot' = Some(snapshot)
    /\ UNCHANGED matcher

\* handle_window_update: a button for each window of the snapshot that the
\* display filter and the ignore rules let through (shown), the others
\* removed; update_focus takes "urgent" from a focused button; the
\* snapshot is stored.
HandleWindowUpdate(snapshot, shown) ==
    /\ pc = "idle"
    /\ buttons' = {snapshot[i].id : i \in shown}
    /\ urgent' = (urgent \cap buttons')
                    \ {snapshot[i].id : i \in {j \in shown : snapshot[j].is_focused}}
    /\ previous_snapshot' = Some(snapshot)
    /\ UNCHANGED matcher

\* A bug ReadEvent could have: a channel of one place, a snapshot dropped
\* when the place is taken.
ReadEvent_DropsWhenFull(out) ==
    /\ reader = "running"
    /\ processed' = Append(processed, out)
    /\ snapshot_queue' = IF IsSome(out) /\ snapshot_queue = <<>>
                         THEN Append(snapshot_queue, Unwrap(out))
                         ELSE snapshot_queue
    /\ UNCHANGED <<reader, forwarder, event_queue, received>>
    /\ UNCHANGED <<source, instance, matcher, display_filter>>

\* One turn of the loop of run_window_stream on Ok(event): process_event
\* returns out, and a snapshot is sent into the unbounded channel.
ReadEvent(out) ==
    /\ reader = "running"
    /\ processed' = Append(processed, out)
    /\ snapshot_queue' = IF IsSome(out)
                         THEN Append(snapshot_queue, Unwrap(out))
                         ELSE snapshot_queue
    /\ UNCHANGED <<reader, forwarder, event_queue, received>>
    /\ UNCHANGED <<source, instance, matcher, display_filter>>

\* The turn of the loop on Err(e): run_window_stream returns, the thread
\* ends and the sender is dropped.
ReadError ==
    /\ reader = "running"
    /\ reader' = "stopped"
    /\ UNCHANGED <<snapshot_queue, forwarder, event_queue, processed, received>>
    /\ UNCHANGED <<source, instance, matcher, display_filter>>

\* A bug NextSnapshot could have: the end of the stream is reported as
\* soon as the reader has stopped, snapshots still in the channel.
NextSnapshot_EndsEarly ==
    /\ forwarder = "running"
    /\ IF reader = "stopped"
       THEN /\ forwarder' = "ended"
            /\ UNCHANGED <<snapshot_queue, event_queue, received>>
       ELSE /\ snapshot_queue # <<>>
            /\ snapshot_queue' = Tail(snapshot_queue)
            /\ received' = Append(received, Head(snapshot_queue))
            /\ event_queue' = Append(event_queue,
                   [kind |-> "WindowUpdate", snapshot |-> Head(snapshot_queue)])
            /\ UNCHANGED forwarder
    /\ UNCHANGED <<reader, processed>>
    /\ UNCHANGED <<source, instance, matcher, display_filter>>

\* One turn of forward_window_updates: next_snapshot returns the oldest
\* snapshot of the channel, which is sent on as a WindowUpdate, or None
\* when the channel is empty and its sender is gone, which ends the task.
NextSnapshot ==
    /\ forwarder = "running"
    /\ IF snapshot_queue # <<>>
       THEN /\ snapshot_queue' = Tail(snapshot_queue)
            /\ received' = Append(received, Head(snapshot_queue))
            /\ event_queue' = Append(event_queue,
                   [kind |-> "WindowUpdate", snapshot |-> Head(snapshot_queue)])
            /\ UNCHANGED forwarder
       ELSE /\ reader = "stopped"
            /\ forwarder' = "ended"
            /\ UNCHANGED <<snapshot_queue, event_queue, received>>
    /\ UNCHANGED <<reader, processed>>
    /\ UNCHANGED <<source, instance, matcher, display_filter>>

\* One turn of forward_notifications.
Notify(n) ==
    /\ event_queue' = Append(event_queue, [kind |-> "Notification", notification |-> n])
    /\ UNCHANGED <<reader, snapshot_queue, forwarder, processed, received>>
    /\ UNCHANGED <<source, instance, matcher, display_filter>>

\* One turn of the loop of run_event_loop: the oldest event is taken and
\* handled by its arm.
NextEvent ==
    /\ event_queue # <<>>
    /\ event_queue' = Tail(event_queue)
    /\ LET message == Head(event_queue)
       IN  IF message.kind = "Notification"
           THEN Matching(message.notification)
           ELSE \E shown \in SUBSET DOMAIN message.snapshot :
                   HandleWindowUpdate(message.snapshot, shown)
    /\ UNCHANGED <<reader, snapshot_queue, forwarder, processed, received>>
    /\ UNCHANGED <<source, display_filter>>

\* One turn of forward_window_updates, the snapshot being whatever
\* next_snapshot has returned.
ForwardWindowUpdate(snapshot) ==
    /\ event_queue' = Append(event_queue, [kind |-> "WindowUpdate", snapshot |-> snapshot])
    /\ UNCHANGED <<reader, snapshot_queue, forwarder, processed, received>>
    /\ UNCHANGED <<source, instance, matcher, display_filter>>

\* One turn of forward_workspace_changes.
NotifyWorkspaces ==
    /\ event_queue' = Append(event_queue, [kind |-> "Workspaces"])
    /\ UNCHANGED <<reader, snapshot_queue, forwarder, processed, received>>
    /\ UNCHANGED <<source, instance, matcher, display_filter>>

\* The arm of run_event_loop for Workspaces: the filter is determined anew
\* and stored; when it has changed and update_output_and_resize reports
\* another output (resized), the stored snapshot is shown again, under
\* DisplayFilter::ShowAll.
HandleWorkspaces(updated_filter, resized) ==
    /\ pc = "idle"
    /\ display_filter' = updated_filter
    /\ IF display_filter # updated_filter /\ resized /\ IsSome(previous_snapshot)
       THEN HandleWindowUpdate(Unwrap(previous_snapshot),
                               Displayed(Unwrap(previous_snapshot), ShowAll))
       ELSE UNCHANGED <<instance, matcher>>

\* One turn of the loop of run_event_loop, the filter closure of
\* handle_window_update computed from display_filter and the settings.
RunEventLoop(answer, resized) ==
    /\ event_queue # <<>>
    /\ event_queue' = Tail(event_queue)
    /\ LET message == Head(event_queue)
       IN  CASE message.kind = "Notification" ->
                   Matching(message.notification) /\ UNCHANGED display_filter
             [] message.kind = "WindowUpdate" ->
                   /\ HandleWindowUpdate(message.snapshot,
                                         Displayed(message.snapshot, display_filter))
                   /\ UNCHANGED display_filter
             [] message.kind = "Workspaces" ->
                   HandleWorkspaces(DetermineDisplayFilter(answer), resized)
    /\ UNCHANGED <<reader, snapshot_queue, forwarder, processed, received>>
    /\ UNCHANGED source

\* ModuleInstance::create and create_event_stream, before the first event.
Fresh ==
    /\ previous_snapshot = None
    /\ buttons = {}
    /\ urgent = {}
    /\ settings = [use_desktop_entry |-> TRUE, use_fuzzy_matching |-> FALSE,
                   map_app_ids |-> EmptyMap]
    /\ parents = EmptyMap
    /\ notification = None
    /\ pc = "idle"
    /\ process_id = 0
    /\ matched = FALSE
    /\ lookups = 0
    /\ reader = "running"
    /\ snapshot_queue = <<>>
    /\ forwarder = "running"
    /\ event_queue = <<>>
    /\ processed = <<>>
    /\ received = <<>>
    /\ display_filter = ShowAll

\* WindowTracker::new(), before the first event is read.
Init ==
    /\ state = "None"
    /\ wins_vec = <<>>
    /\ ws_vec = <<>>
    /\ windows = EmptyMap
    /\ workspaces = EmptyMap
    /\ active_per_workspace = EmptyMap
    /\ last_focused_per_workspace = EmptyMap
    /\ filter_workspace \in BOOLEAN
    /\ event = "none"
    /\ result = None
    /\ highlight_window = None
    /\ seen_windows = FALSE
    /\ seen_workspaces = FALSE
    /\ Fresh

---------------------------------------------------------------------------
(* The event source.  The payloads of the events are drawn from the sets   *)
(* of an environment E.                                                    *)

Opt(S) == {None} \cup {Some(x) : x \in S}

Vecs(S, n) == UNION {[1..k -> S] : k \in 0..n}

NextOver(E) ==
    \/ \E wins \in Vecs(E.windows, MaxVec) : WindowsChanged(wins)
    \/ \E wss \in Vecs(E.workspaces, MaxVec) : WorkspacesChanged(wss)
    \/ \E id \in E.window_ids : WindowClosed(id)
    \/ \E window \in E.windows : WindowOpenedOrChanged(window)
    \/ \E id \in Opt(E.window_ids) : WindowFocusChanged(id)
    \/ \E id \in E.workspace_ids : WorkspaceActivated(id)
    \/ \E workspace_id \in E.overview_ids, active_window_id \in Opt(E.overview_windows) :
          WorkspaceActiveWindowChanged(workspace_id, active_window_id)
    \/ \E changes \in Vecs(E.window_ids \X E.layouts, 1) : WindowLayoutsChanged(changes)
    \/ OtherEvent

\* A compositor with MaxWin windows, all on workspace 1, and MaxWs workspaces
\* on one output; the overview reports window 1 on workspace 1.
FocusEnv ==
    [windows |-> [id : 1..MaxWin, is_focused : BOOLEAN,
                  workspace_id : {Some(1)}, pos : {None}],
     workspaces |-> [id : 1..MaxWs, idx : {1}, output : {Some("DP-1")},
                     is_active : BOOLEAN],
     window_ids |-> 1..MaxWin,
     workspace_ids |-> 1..MaxWs,
     overview_ids |-> {1},
     overview_windows |-> {1},
     layouts |-> {None}]

Next == NextOver(FocusEnv)

Spec == Init /\ [][Next]_vars

\* A compositor with AcWs workspaces, each on one of two outputs or on none,
\* and one window; workspace AcWs + 1 is never in a list.
ActivateEnv ==
    [windows |-> [id : {1}, is_focused : {FALSE}, workspace_id : {Some(1)}, pos : {None}],
     workspaces |-> [id : 1..AcWs, idx : {1},
                     output : {None, Some("DP-1"), Some("DP-2")}, is_active : BOOLEAN],
     window_ids |-> {1},
     workspace_ids |-> 1..(AcWs + 1),
     overview_ids |-> {1},
     overview_windows |-> {1},
     layouts |-> {None}]

ActivateNext == NextOver(ActivateEnv)

ActivateSpec == Init /\ [][ActivateNext]_vars

\* One window, focused or not, that every event may place on one of MvWs
\* workspaces of one output, each active or not.
MoveEnv ==
    [windows |-> [id : {1}, is_focused : BOOLEAN,
                  workspace_id : {Some(k) : k \in 1..MvWs}, pos : {None}],
     workspaces |-> [id : 1..MvWs, idx : {1}, output : {Some("DP-1")},
                     is_active : BOOLEAN],
     window_ids |-> {1},
     workspace_ids |-> 1..MvWs,
     overview_ids |-> {1},
     overview_windows |-> {1},
     layouts |-> {None}]

MoveNext == NextOver(MoveEnv)

MoveSpec == Init /\ [][MoveNext]_vars

---------------------------------------------------------------------------
(* generate_snapshot as a function of the registry.  Every combination of  *)
(* the four maps is a Ready state the event stream can build, so the       *)
(* registry is drawn from bounded sets and an ignored event, whose only    *)
(* effect is the snapshot at the end of process_event, is processed.       *)

\* The BTreeMaps over keys from ids whose values have fields from F[_].
WindowMaps(ids, focus, wsids, layouts) ==
    UNION {{[k \in D |-> [id |-> k, is_focused |-> f[k][1], workspace_id |-> f[k][2],
                          pos |-> f[k][3]]] :
              f \in [D -> focus \X wsids \X layouts]} : D \in SUBSET ids}

WorkspaceMaps(ids, idxs, outputs, actives) ==
    UNION {{[k \in D |-> [id |-> k, idx |-> f[k][1], output |-> f[k][2],
                          is_active |-> f[k][3]]] :
              f \in [D -> idxs \X outputs \X actives]} : D \in SUBSET ids}

IdMaps(keys, vals) == UNION {[D -> vals] : D \in SUBSET keys}

ReadyWith(wins, wss, apws, lfws) ==
    /\ state = "Ready"
    /\ wins_vec = <<>>
    /\ ws_vec = <<>>
    /\ windows \in wins
    /\ workspaces \in wss
    /\ active_per_workspace \in apws
    /\ last_focused_per_workspace \in lfws
    /\ filter_workspace \in BOOLEAN
    /\ event = "none"
    /\ result = None
    /\ highlight_window = None
    /\ seen_windows = TRUE
    /\ seen_workspaces = TRUE
    /\ Fresh

\* Unfocused windows over every layout, on two workspaces of every idx.
SortLayouts == {None, Some(<<1, 1>>), Some(<<1, 2>>), Some(<<2, 1>>)}

SortWorkspaces == {1, 2}

SortInit ==
    ReadyWith(WindowMaps(1..SortWin, {FALSE}, {Some(k) : k \in SortWorkspaces}, SortLayouts),
              WorkspaceMaps(SortWorkspaces, {1, 2}, {Some("DP-1")}, {TRUE}),
              {EmptyMap}, {EmptyMap})

SortNext == OtherEvent

SortSpec == SortInit /\ [][SortNext]_vars

\* Windows of every focus, tiled or floating, on a workspace or on none;
\* workspaces active or not on one output; every overview and last-focused map.
HighlightInit ==
    ReadyWith(WindowMaps(1..HlWin, BOOLEAN, Opt(1..HlWs), {None, Some(<<1, 1>>)}),
              WorkspaceMaps(1..HlWs, {1}, {Some("DP-1")}, BOOLEAN),
              IdMaps(1..HlWs, 1..HlWin), IdMaps(1..HlWs, 1..HlWin))

HighlightNext == OtherEvent

HighlightSpec == HighlightInit /\ [][HighlightNext]_vars

\* Unfocused windows, tiled or floating, on a workspace or on none; two
\* workspaces of every idx, active or not, on one of two outputs or on none.
FilterWorkspaces == {1, 2}

FilterOutputs == {None, Some("DP-1"), Some("DP-2")}

FilterInit ==
    ReadyWith(WindowMaps(1..FilterWin, {FALSE}, Opt(FilterWorkspaces), {None, Some(<<1, 1>>)}),
              WorkspaceMaps(FilterWorkspaces, {0, 1}, FilterOutputs, BOOLEAN),
              {EmptyMap}, {EmptyMap})

FilterNext == OtherEvent

FilterSpec == FilterInit /\ [][FilterNext]_vars

\* WindowFocusChanged as a function of the registry: windows of every focus
\* on one of two workspaces or on none, every last-focused map, and a focus
\* change that names a window, an unknown window (FcWin + 1) or none.
FocusChangeWorkspaces == {1, 2}

FocusChangeInit ==
    ReadyWith(WindowMaps(1..FcWin, BOOLEAN, Opt(FocusChangeWorkspaces), {None}),
              WorkspaceMaps({1}, {1}, {Some("DP-1")}, {TRUE}),
              {EmptyMap}, IdMaps(FocusChangeWorkspaces, 1..FcWin))

FocusChangeNext == \E id \in Opt(1..(FcWin + 1)) : WindowFocusChanged(id)

FocusChangeSpec == FocusChangeInit /\ [][FocusChangeNext]_vars

\* WindowLayoutsChanged as a function of the registry: windows of every
\* focus and layout, and batches of at most MaxVec changes that name a
\* window or an unknown window (LayWin + 1).
LayoutValues == {None, Some(<<1, 1>>), Some(<<2, 1>>)}

LayoutChanges == Vecs((1..(LayWin + 1)) \X LayoutValues, MaxVec)

LayoutInit ==
    ReadyWith(WindowMaps(1..LayWin, BOOLEAN, {Some(1)}, LayoutValues),
              WorkspaceMaps({1}, {1}, {Some("DP-1")}, {TRUE}),
              {EmptyMap}, {EmptyMap})

LayoutNext == \E changes \in LayoutChanges : WindowLayoutsChanged(changes)

LayoutSpec == LayoutInit /\ [][LayoutNext]_vars

\* ---------------------------------------------------------------------
\* The notification matcher over a snapshot handle_window_update has
\* stored: one notification, followed to the end of handle_notification.

\* The window stream before its first event, as the matcher leaves it.
Unread ==
    /\ state = "None"
    /\ wins_vec = <<>>
    /\ ws_vec = <<>>
    /\ windows = EmptyMap
    /\ workspaces = EmptyMap
    /\ active_per_workspace = EmptyMap
    /\ last_focused_per_workspace = EmptyMap
    /\ filter_workspace = FALSE
    /\ event = "none"
    /\ result = None
    /\ highlight_window = None
    /\ seen_windows = FALSE
    /\ seen_workspaces = FALSE
    /\ reader = "running"
    /\ snapshot_queue = <<>>
    /\ forwarder = "running"
    /\ event_queue = <<>>
    /\ processed = <<>>
    /\ received = <<>>

\* The snapshots of at most n windows drawn from W, each window with
\* its own id.
Snapshots(W, n) == {s \in Vecs(W, n) : \A i \in DOMAIN s : s[i].id = i}

\* handle_window_update has stored a snapshot of sn and holds buttons for
\* some of its windows; the handler is at the top of the event loop.
Stored(sn) ==
    /\ previous_snapshot \in {None} \cup {Some(x) : x \in sn}
    /\ buttons \in IF previous_snapshot = None THEN {{}}
                   ELSE SUBSET DOMAIN Unwrap(previous_snapshot)
    /\ urgent = {}
    /\ notification = None
    /\ pc = "idle"
    /\ process_id = 0
    /\ matched = FALSE
    /\ lookups = 0
    /\ display_filter = ShowAll

Pids == {40, 50}

\* What ProcessInfo::query answers: a parent, no parent, or a failure.
Answers ==
    {[ok |-> TRUE, parent_id |-> p] : p \in Opt(Pids)}
        \cup {[ok |-> FALSE, parent_id |-> None]}

WalkWindows ==
    [id : 1..WalkWin, is_focused : BOOLEAN, pid : Opt(Pids),
     app_id : Opt({<<"a">>})]

WalkNotifications == [process_id : Opt(Pids), desktop_entry : Opt({<<"a">>})]

WalkInit ==
    /\ Unread
    /\ Stored(Snapshots(WalkWindows, WalkWin))
    /\ settings \in [use_desktop_entry : BOOLEAN, use_fuzzy_matching : {FALSE},
                     map_app_ids : {EmptyMap}]
    /\ parents \in [Pids -> Answers]

WalkNext ==
    \/ notification = None /\ \E n \in WalkNotifications : HandleNotification(n)
    \/ lookups < MaxLookups /\ Walk

WalkSpec == WalkInit /\ [][WalkNext]_vars

\* The executor resumes handle_notification when ProcessInfo::query has
\* answered.
WalkFairSpec == WalkSpec /\ WF_vars(lookups < MaxLookups /\ Walk)

Chars == {"a", "A", "."}

Strings == UNION {[1..k -> Chars] : k \in 1..MaxStr}

EntryWindows ==
    [id : 1..EntryWin, is_focused : {FALSE}, pid : {None}, app_id : Opt(Strings)]

EntryNotifications == [process_id : {None}, desktop_entry : Opt(Strings)]

\* The rename tables: none, or one entry renamed.
RenameTables == {EmptyMap} \cup {[k \in {<<"a">>} |-> v] : v \in Strings}

EntryInit ==
    /\ Unread
    /\ Stored(Snapshots(EntryWindows, EntryWin))
    /\ settings \in [use_desktop_entry : BOOLEAN, use_fuzzy_matching : BOOLEAN,
                     map_app_ids : RenameTables]
    /\ parents = EmptyMap

EntryNext ==
    notification = None /\ \E n \in EntryNotifications : HandleNotification(n)

EntrySpec == EntryInit /\ [][EntryNext]_vars

\* Every matching path over one snapshot: windows focused or not, owned by
\* process 40 or by none, with an app_id that differs from the entry "a"
\* by case or not at all; every lookup of the process table fails.
PathWindows ==
    [id : 1..PathWin, is_focused : BOOLEAN, pid : Opt({40}),
     app_id : Opt({<<"a">>, <<"A">>})]

PathNotifications == [process_id : Opt({40}), desktop_entry : Opt({<<"a">>})]

PathInit ==
    /\ Unread
    /\ Stored(Snapshots(PathWindows, PathWin))
    /\ settings \in [use_desktop_entry : BOOLEAN, use_fuzzy_matching : BOOLEAN,
                     map_app_ids : {EmptyMap}]
    /\ parents = EmptyMap

PathNext ==
    \/ notification = None /\ \E n \in PathNotifications : HandleNotification(n)
    \/ lookups < MaxLookups /\ Walk

PathSpec == PathInit /\ [][PathNext]_vars

\* ---------------------------------------------------------------------
\* The reader thread, the channel of snapshots, forward_window_updates,
\* the channel of events and run_event_loop.  What process_event returns
\* for an event is settled by Spec; here it is any snapshot or none.

StreamWindows ==
    [id : {1}, is_focused : BOOLEAN, pid : {None}, app_id : {Some(<<"a">>)}]

StreamSnapshots == Snapshots(StreamWindows, 1)

StreamNotifications == [process_id : {None}, desktop_entry : {Some(<<"a">>)}]

StreamInit == Unread /\ Fresh

StreamNext ==
    \/ Len(processed) < MaxEvents /\ \E out \in Opt(StreamSnapshots) : ReadEvent(out)
    \/ ReadError
    \/ NextSnapshot
    \/ Len(event_queue) < MaxQueue /\ \E n \in StreamNotifications : Notify(n)
    \/ NextEvent

StreamSpec == StreamInit /\ [][StreamNext]_vars

\* The main loop runs forward_window_updates and run_event_loop whenever
\* their channels have something to return.
StreamFairSpec == StreamSpec /\ WF_vars(NextSnapshot) /\ WF_vars(NextEvent)

\* The event loop over one window that has an app_id, a title, a workspace
\* and an output or not, under at most MaxRules ignore rules of every
\* shape, a bar on one of two outputs, and every kind of event.
ButtonWindows ==
    [id : 1..BtnWin, is_focused : {FALSE}, pid : {None},
     app_id : Opt({<<"a">>}), title : Opt({<<"a">>}),
     workspace_id : Opt({1}), output_name : Opt({"DP-1"})]

ButtonSnapshots == Snapshots(ButtonWindows, BtnWin)

ButtonRules ==
    [app_id : Opt({<<"a">>}), title : Opt({<<"a">>}),
     title_contains : Opt({<<"a">>}), title_regex : Opt({{<<"a">>}}),
     workspace : Opt({1})]

ButtonNotifications == [process_id : {None}, desktop_entry : {Some(<<"a">>)}]

DisplayFilters == {ShowAll, Only("DP-1"), Only("DP-2")}

ButtonInit ==
    /\ Unread
    /\ previous_snapshot = None
    /\ buttons = {}
    /\ urgent = {}
    /\ settings \in [use_desktop_entry : {TRUE}, use_fuzzy_matching : {FALSE},
                     map_app_ids : {EmptyMap},
                     ignore_rules : Vecs(ButtonRules, MaxRules),
                     show_all_outputs : BOOLEAN]
    /\ parents = EmptyMap
    /\ notification = None
    /\ pc = "idle"
    /\ process_id = 0
    /\ matched = FALSE
    /\ lookups = 0
    /\ display_filter \in {DetermineDisplayFilter(answer) : answer \in DisplayFilters}

ButtonNext ==
    \/ Len(event_queue) < BtnQueue
          /\ \E snapshot \in ButtonSnapshots : ForwardWindowUpdate(snapshot)
    \/ Len(event_queue) < BtnQueue /\ \E n \in ButtonNotifications : Notify(n)
    \/ Len(event_queue) < BtnQueue /\ NotifyWorkspaces
    \/ \E answer \in DisplayFilters, resized \in BOOLEAN : RunEventLoop(answer, resized)

ButtonSpec == ButtonInit /\ [][ButtonNext]_vars

---------------------------------------------------------------------------
(* Properties of the registry (Spec).                                      *)

FocusedIds(wins) == {k \in DOMAIN wins : wins[k].is_focused}

AfterFocusEvent == event \in {"WindowOpenedOrChanged", "WindowFocusChanged"}

\* C1 as stated: in the Ready state reached right after a
\* WindowOpenedOrChanged or a WindowFocusChanged event, at most one window of
\* the registry is focused.
C1_AtMostOneFocused ==
    (state = "Ready" /\ AfterFocusEvent) => Cardinality(FocusedIds(windows)) <= 1

\* C1, amended: a step of WindowFocusChanged(id) in Ready leaves exactly the
\* known window id focused (none when id is absent or unknown); a step of
\* WindowOpenedOrChanged(w) with w focused leaves exactly w focused; a step of
\* WindowOpenedOrChanged(w) with w unfocused clears nothing, it leaves
\* focused the windows other than w.id that were focused before.
C1_FocusAfterEvent ==
    [][state = "Ready" =>
         /\ \A id \in Opt(1..MaxWin) :
               WindowFocusChanged(id) =>
                   /\ Cardinality(FocusedIds(windows')) <= 1
                   /\ FocusedIds(windows') = {k \in DOMAIN windows : Some(k) = id}
         /\ \A w \in FocusEnv.windows :
               WindowOpenedOrChanged(w) =>
                   IF w.is_focused
                   THEN FocusedIds(windows') = {w.id}
                   ELSE FocusedIds(windows') = FocusedIds(windows) \ {w.id}]_vars

\* A focused window was opened beside other windows, and it alone is focused.
C1_Witness ==
    /\ state = "Ready"
    /\ event = "WindowOpenedOrChanged"
    /\ Cardinality(DOMAIN windows) = MaxWin
    /\ Cardinality(FocusedIds(windows)) = 1

\* C2: the registry is Ready exactly when a WindowsChanged and a
\* WorkspacesChanged have both been processed; before that it is
\* Uninitialized (neither seen), WindowsOnly (windows seen only) or
\* WorkspacesOnly (workspaces seen only).
C2_ReadyIffBothSeen ==
    /\ state = "Ready" <=> (seen_windows /\ seen_workspaces)
    /\ state = "None" <=> (~seen_windows /\ ~seen_workspaces)
    /\ state = "WindowsOnly" <=> (seen_windows /\ ~seen_workspaces)
    /\ state = "WorkspacesOnly" <=> (~seen_windows /\ seen_workspaces)

\* Ready was entered by a WindowsChanged that followed the workspaces.
C2_Witness ==
    /\ state = "Ready"
    /\ event = "WindowsChanged"
    /\ active_per_workspace = EmptyMap
    /\ windows # EmptyMap
    /\ workspaces # EmptyMap

\* C3: once the registry is Ready it is Ready after every later event.
C3_ReadyAbsorbing == [][state = "Ready" => state' = "Ready"]_vars

\* A WorkspacesChanged was processed in a Ready state that already held an
\* overview entry.
C3_Witness ==
    /\ state = "Ready"
    /\ event = "WorkspacesChanged"
    /\ active_per_workspace # EmptyMap

\* C4: process_event returns Some(snapshot) exactly when the state after the
\* event is Ready, whatever the event kind, and None otherwise.
C4_SnapshotIffReady ==
    event # "none" => (IsSome(result) <=> state = "Ready")

\* An ignored event in Ready returned a snapshot with a window in it.
C4_Witness ==
    /\ state = "Ready"
    /\ event = "Other"
    /\ IsSome(result)
    /\ Len(Unwrap(result)) > 0

---------------------------------------------------------------------------
(* Properties of generate_snapshot (SortSpec, HighlightSpec).              *)

\* The snapshot the last call returned, its window ids, and the windows
\* whose emitted is_focused differs from the registry's.
Snapshot == Unwrap(result)

EmittedIds == {Snapshot[i].inner.id : i \in 1..Len(Snapshot)}

Overridden ==
    {i \in 1..Len(Snapshot) :
        Snapshot[i].inner.is_focused /\ ~windows[Snapshot[i].inner.id].is_focused}

EmittedFocused == {i \in 1..Len(Snapshot) : Snapshot[i].inner.is_focused}

\* The key of C5: workspace idx, tiled before floating, (column, row), id.
SortKey(info) ==
    <<workspaces[Unwrap(info.inner.workspace_id)].idx,
      IF info.inner.pos = None THEN 1 ELSE 0,
      IF info.inner.pos = None THEN 0 ELSE Unwrap(info.inner.pos)[1],
      IF info.inner.pos = None THEN 0 ELSE Unwrap(info.inner.pos)[2],
      info.inner.id>>

LexLess(a, b) ==
    \E i \in 1..Len(a) : a[i] < b[i] /\ \A j \in 1..(i - 1) : a[j] = b[j]

\* Every order in which the elements of seq can come.
Perms(seq) ==
    {[i \in 1..Len(seq) |-> seq[f[i]]] :
        f \in {g \in [1..Len(seq) -> 1..Len(seq)] :
                 \A a, b \in 1..Len(seq) : g[a] = g[b] => a = b}}

\* C5: the keys of consecutive windows of a snapshot are strictly
\* increasing; sorting the candidates from any order they could come in
\* gives the emitted order; a tiled window precedes a floating window of the
\* same workspace.
C5_StrictlySorted ==
    IsSome(result) =>
        /\ \A i \in 1..(Len(Snapshot) - 1) :
              LexLess(SortKey(Snapshot[i]), SortKey(Snapshot[i + 1]))
        /\ \A p \in Perms(CandidatePairs(windows, workspaces, filter_workspace)) :
              [i \in 1..Len(p) |-> SortBy(p)[i].window.id]
                  = [i \in 1..Len(Snapshot) |-> Snapshot[i].inner.id]
        /\ \A i, j \in 1..Len(Snapshot) :
              (/\ Snapshot[i].inner.workspace_id = Snapshot[j].inner.workspace_id
               /\ Snapshot[i].inner.pos # None
               /\ Snapshot[j].inner.pos = None) => i < j

\* Three windows of one workspace were emitted: the floating one has the
\* lowest id and comes last, the tiled ones come by column, not by id.
C5_Witness ==
    /\ IsSome(result)
    /\ Len(Snapshot) = 3
    /\ Snapshot[3].inner.id = 1
    /\ Snapshot[3].inner.pos = None
    /\ Snapshot[1].inner.id = 3
    /\ Snapshot[1].inner.pos # None
    /\ \A i \in 1..3 : Snapshot[i].inner.workspace_id = Snapshot[1].inner.workspace_id

NoCandidateFocused == \A i \in 1..Len(Snapshot) : ~windows[Snapshot[i].inner.id].is_focused

ActiveIds == {k \in DOMAIN workspaces : workspaces[k].is_active}

\* The chain of C6 for the active workspace a: overview entry, last focused
\* entry, first emitted window of a.
Chain(a) ==
    IF a \in DOMAIN active_per_workspace THEN Some(active_per_workspace[a])
    ELSE IF a \in DOMAIN last_focused_per_workspace
    THEN Some(last_focused_per_workspace[a])
    ELSE IF \E i \in 1..Len(Snapshot) : Snapshot[i].inner.workspace_id = Some(a)
    THEN Some(Snapshot[Min({i \in 1..Len(Snapshot) :
                              Snapshot[i].inner.workspace_id = Some(a)})].inner.id)
    ELSE None

ExpectedHighlight == IF ActiveIds = {} THEN None ELSE Chain(Min(ActiveIds))

\* C6: when no candidate is focused, the highlight window is the first
\* defined of the overview entry, the last focused entry and the first
\* candidate of A, the active workspace of lowest id; it is no window when
\* no workspace is active; and the windows emitted as focused are those with
\* that id.
C6_FallbackChain ==
    (IsSome(result) /\ NoCandidateFocused) =>
        /\ highlight_window = ExpectedHighlight
        /\ \A i \in 1..Len(Snapshot) :
              Snapshot[i].inner.is_focused = (Some(Snapshot[i].inner.id) = ExpectedHighlight)

\* Two workspaces are active, the second has an overview entry, the first
\* has none but a last focused window, which is emitted as focused.
C6_Witness ==
    /\ IsSome(result)
    /\ NoCandidateFocused
    /\ ActiveIds = {1, 2}
    /\ DOMAIN active_per_workspace = {2}
    /\ 1 \in DOMAIN last_focused_per_workspace
    /\ last_focused_per_workspace[1] # active_per_workspace[2]
    /\ Overridden # {}
    /\ Len(Snapshot) = 2

\* C7: when a candidate is focused, every emitted window has the is_focused
\* of its window in the registry.
C7_NoOverrideWhenFocused ==
    (IsSome(result) /\ ~NoCandidateFocused) =>
        \A i \in 1..Len(Snapshot) :
            Snapshot[i].inner.is_focused = windows[Snapshot[i].inner.id].is_focused

\* A candidate is focused while the overview entry of the active workspace
\* names another, unfocused, emitted window.
C7_Witness ==
    /\ IsSome(result)
    /\ ~NoCandidateFocused
    /\ ActiveIds # {}
    /\ Min(ActiveIds) \in DOMAIN active_per_workspace
    /\ active_per_workspace[Min(ActiveIds)] \in EmittedIds
    /\ ~windows[active_per_workspace[Min(ActiveIds)]].is_focused

\* C8 as stated: in a snapshot with an override no window of the registry,
\* candidate or not, is focused.
C8_OverrideOnlyIfNoneFocused ==
    (IsSome(result) /\ Overridden # {}) => FocusedIds(windows) = {}

\* C8, amended: in a snapshot with an override no candidate is focused:
\* every focused window of the registry is left out of the snapshot, for it
\* has no workspace_id, or its workspace is unknown, or filter_workspace is
\* set.
C8_OverrideOnlyIfNoCandidateFocused ==
    (IsSome(result) /\ Overridden # {}) =>
        \A k \in FocusedIds(windows) :
            /\ k \notin EmittedIds
            /\ \/ windows[k].workspace_id = None
               \/ Unwrap(windows[k].workspace_id) \notin DOMAIN workspaces
               \/ filter_workspace

\* A window is overridden while the other window, focused, is filtered out.
C8_Witness ==
    /\ IsSome(result)
    /\ Overridden # {}
    /\ FocusedIds(windows) # {}
    /\ filter_workspace
    /\ \A k \in FocusedIds(windows) :
          /\ windows[k].workspace_id # None
          /\ Unwrap(windows[k].workspace_id) \in DOMAIN workspaces

\* C9 as stated: with no window focused, W the active workspace and
\* last_focused_per_workspace[W] = X, a window of the registry, the snapshot
\* marks X as focused.
C9_LastFocusedMarked ==
    (/\ IsSome(result)
     /\ FocusedIds(windows) = {}
     /\ ActiveIds # {}
     /\ Min(ActiveIds) \in DOMAIN last_focused_per_workspace
     /\ last_focused_per_workspace[Min(ActiveIds)] \in DOMAIN windows) =>
        \E i \in 1..Len(Snapshot) :
            /\ Snapshot[i].inner.id = last_focused_per_workspace[Min(ActiveIds)]
            /\ Snapshot[i].inner.is_focused

\* C9, amended: with no window focused, W the active workspace of lowest id,
\* last_focused_per_workspace[W] = X, active_per_workspace[W] undefined or X,
\* and X a window of the snapshot: the snapshot marks X, and only X, as
\* focused, and the registry's copy of X is unfocused.
C9_LastFocusedMarkedIfEmitted ==
    (/\ IsSome(result)
     /\ FocusedIds(windows) = {}
     /\ ActiveIds # {}
     /\ Min(ActiveIds) \in DOMAIN last_focused_per_workspace
     /\ \/ Min(ActiveIds) \notin DOMAIN active_per_workspace
        \/ active_per_workspace[Min(ActiveIds)]
               = last_focused_per_workspace[Min(ActiveIds)]
     /\ last_focused_per_workspace[Min(ActiveIds)] \in EmittedIds) =>
        /\ \A i \in 1..Len(Snapshot) :
              Snapshot[i].inner.is_focused
                  = (Snapshot[i].inner.id = last_focused_per_workspace[Min(ActiveIds)])
        /\ ~windows[last_focused_per_workspace[Min(ActiveIds)]].is_focused

\* No overview entry; the last focused window of the active workspace is the
\* second of two emitted windows and is the one marked.
C9_Witness ==
    /\ IsSome(result)
    /\ FocusedIds(windows) = {}
    /\ active_per_workspace = EmptyMap
    /\ ActiveIds # {}
    /\ Min(ActiveIds) \in DOMAIN last_focused_per_workspace
    /\ Len(Snapshot) = 2
    /\ Snapshot[2].inner.id = last_focused_per_workspace[Min(ActiveIds)]
    /\ Snapshot[2].inner.is_focused
    /\ ~Snapshot[1].inner.is_focused

\* C10: at most one emitted window is overridden, and when the registry
\* holds at most one focused window at most one emitted window is focused.
C10_AtMostOneOverride ==
    IsSome(result) =>
        /\ Cardinality(Overridden) <= 1
        /\ Cardinality(FocusedIds(windows)) <= 1 => Cardinality(EmittedFocused) <= 1

\* Two unfocused windows are emitted and one of them is overridden.
C10_Witness ==
    /\ IsSome(result)
    /\ Len(Snapshot) = 2
    /\ FocusedIds(windows) = {}
    /\ Cardinality(Overridden) = 1

\* C11: generating a snapshot leaves windows (every is_focused flag),
\* workspaces, active_per_workspace and last_focused_per_workspace as they
\* were, also when a window is overridden: the overridden window is emitted
\* as focused and is still unfocused in the registry, so the next event finds
\* the same registry and returns the same snapshot.
C11_SnapshotLeavesRegistry ==
    [][/\ tracker' = tracker
       /\ \A i \in 1..Len(Unwrap(result')) :
             (/\ Some(Unwrap(result')[i].inner.id) = highlight_window'
              /\ ~windows[Unwrap(result')[i].inner.id].is_focused) =>
                 /\ Unwrap(result')[i].inner.is_focused
                 /\ ~windows'[Unwrap(result')[i].inner.id].is_focused
       /\ IsSome(result) => (result' = result /\ highlight_window' = highlight_window)]_vars

\* The overview entry of the active workspace names an unfocused window,
\* which is emitted as focused while the registry keeps it unfocused.
C11_Witness ==
    /\ IsSome(result)
    /\ event = "Other"
    /\ IsSome(highlight_window)
    /\ highlight_window = OverviewActive(workspaces, active_per_workspace)
    /\ \E i \in Overridden : Some(Snapshot[i].inner.id) = highlight_window
    /\ ~windows[Unwrap(highlight_window)].is_focused

\* The workspace of an emitted window, and the windows of the registry whose
\* workspace_id is a key of the workspace map.
WorkspaceOf(k) == workspaces[Unwrap(windows[k].workspace_id)]

OnKnownWorkspace ==
    {k \in DOMAIN windows :
        /\ windows[k].workspace_id # None
        /\ Unwrap(windows[k].workspace_id) \in DOMAIN workspaces}

\* ws is the active workspace of its output: it is active, it has an output,
\* and no active workspace of a higher id has that output.
ActiveOfItsOutput(ws) ==
    /\ ws.is_active
    /\ ws.output # None
    /\ \A j \in DOMAIN workspaces :
          (workspaces[j].is_active /\ workspaces[j].output = ws.output) => j <= ws.id

\* C12: with filter_workspace set, the emitted windows are the windows whose
\* workspace is the active workspace of its output, so a window of an
\* inactive workspace that shares its output with an active one is left out;
\* with filter_workspace unset, the windows of every known workspace are
\* emitted, each behind the windows of the workspaces of a lower idx.
C12_FilterByActiveWorkspace ==
    IsSome(result) =>
        /\ filter_workspace =>
              /\ EmittedIds = {k \in OnKnownWorkspace : ActiveOfItsOutput(WorkspaceOf(k))}
              /\ \A k \in OnKnownWorkspace :
                    (/\ ~WorkspaceOf(k).is_active
                     /\ \E j \in DOMAIN workspaces :
                           /\ workspaces[j].is_active
                           /\ workspaces[j].output = WorkspaceOf(k).output) =>
                        k \notin EmittedIds
        /\ ~filter_workspace =>
              /\ \A k \in OnKnownWorkspace : k \in EmittedIds
              /\ \A i, j \in 1..Len(Snapshot) :
                    WorkspaceOf(Snapshot[i].inner.id).idx
                        < WorkspaceOf(Snapshot[j].inner.id).idx => i < j

\* Two workspaces share DP-1, idx 0 active and idx 1 inactive, each with a
\* window: with filter_workspace set only the window of idx 0 is emitted.
C12_Witness ==
    /\ IsSome(result)
    /\ filter_workspace
    /\ DOMAIN workspaces = {1, 2}
    /\ \A k \in {1, 2} : workspaces[k].output = Some("DP-1")
    /\ workspaces[2].is_active /\ workspaces[2].idx = 0
    /\ ~workspaces[1].is_active /\ workspaces[1].idx = 1
    /\ DOMAIN windows = {1, 2}
    /\ windows[1].workspace_id = Some(1)
    /\ windows[2].workspace_id = Some(2)
    /\ EmittedIds = {2}

\* C13: with filter_workspace unset, the ids of the snapshot are the ids of
\* the windows whose workspace_id is present and is a key of the workspace
\* map, each id once; a window with no workspace_id or with an unknown
\* workspace is left out, and a snapshot comes out whatever the registry
\* holds.
C13_KnownWorkspaceWindows ==
    /\ event = "Other" => IsSome(result)
    /\ (IsSome(result) /\ ~filter_workspace) =>
          /\ EmittedIds = OnKnownWorkspace
          /\ Len(Snapshot) = Cardinality(OnKnownWorkspace)
          /\ \A i, j \in 1..Len(Snapshot) :
                Snapshot[i].inner.id = Snapshot[j].inner.id => i = j

\* One window has no workspace_id, the other names a workspace the map does
\* not hold, and the snapshot is empty although no filter is set.
C13_Witness ==
    /\ IsSome(result)
    /\ ~filter_workspace
    /\ DOMAIN windows = {1, 2}
    /\ windows[1].workspace_id = None
    /\ windows[2].workspace_id = Some(2)
    /\ DOMAIN workspaces = {1}
    /\ ~workspaces[1].is_active
    /\ Snapshot = <<>>

---------------------------------------------------------------------------
(* Properties of the bulk events (Spec).                                   *)

Max(S) == CHOOSE x \in S : \A y \in S : y <= x

\* The id-to-element map of a list: an id that comes twice names the
\* element that comes last.
LastById(vec) ==
    [k \in {vec[i].id : i \in 1..Len(vec)} |->
        vec[Max({i \in 1..Len(vec) : vec[i].id = k})]]

WindowLists == Vecs(FocusEnv.windows, MaxVec)

WorkspaceLists == Vecs(FocusEnv.workspaces, MaxVec)

\* C14: a WindowsChanged processed in a Ready state that the same
\* WindowsChanged has just left (the last event was a WindowsChanged and the
\* window map is the map of its list) returns the snapshot returned before
\* and leaves the registry as it is; the same for WorkspacesChanged.
C14_BulkIdempotent ==
    [][/\ \A wins \in WindowLists :
             (/\ state = "Ready"
              /\ event = "WindowsChanged"
              /\ windows = LastById(wins)
              /\ WindowsChanged(wins)) =>
                 (tracker' = tracker /\ result' = result)
       /\ \A wss \in WorkspaceLists :
             (/\ state = "Ready"
              /\ event = "WorkspacesChanged"
              /\ workspaces = LastById(wss)
              /\ WorkspacesChanged(wss)) =>
                 (tracker' = tracker /\ result' = result)]_vars

\* A WindowsChanged with two windows was processed in a Ready state that
\* holds a last focused entry, and the snapshot shows both windows.
C14_Witness ==
    /\ state = "Ready"
    /\ event = "WindowsChanged"
    /\ last_focused_per_workspace # EmptyMap
    /\ Cardinality(DOMAIN windows) = 2
    /\ Len(Snapshot) = 2

\* C19: in Ready, WindowsChanged(L) makes the window map the id-to-window
\* map of L, nothing of the old map is left, and it leaves workspaces,
\* active_per_workspace and last_focused_per_workspace as they were;
\* WorkspacesChanged(M) makes the workspace map the map of M and leaves
\* windows and the two per-workspace maps as they were.
C19_BulkReplacesOneMap ==
    [][state = "Ready" =>
         /\ \A wins \in WindowLists :
               WindowsChanged(wins) =>
                   /\ state' = "Ready"
                   /\ windows' = LastById(wins)
                   /\ DOMAIN windows' = {wins[i].id : i \in 1..Len(wins)}
                   /\ workspaces' = workspaces
                   /\ active_per_workspace' = active_per_workspace
                   /\ last_focused_per_workspace' = last_focused_per_workspace
         /\ \A wss \in WorkspaceLists :
               WorkspacesChanged(wss) =>
                   /\ state' = "Ready"
                   /\ workspaces' = LastById(wss)
                   /\ DOMAIN workspaces' = {wss[i].id : i \in 1..Len(wss)}
                   /\ windows' = windows
                   /\ active_per_workspace' = active_per_workspace
                   /\ last_focused_per_workspace' = last_focused_per_workspace]_vars

\* A WindowsChanged with an empty list emptied the window map of a Ready
\* state whose three other maps all hold an entry.
C19_Witness ==
    /\ state = "Ready"
    /\ event = "WindowsChanged"
    /\ windows = EmptyMap
    /\ workspaces # EmptyMap
    /\ active_per_workspace # EmptyMap
    /\ last_focused_per_workspace # EmptyMap

\* The Ready state and the snapshot that the lists L and M give.
ReadyFrom(L, M, st, wins, wss, apw, lfw, res) ==
    /\ st = "Ready"
    /\ wins = LastById(L)
    /\ wss = LastById(M)
    /\ apw = EmptyMap
    /\ lfw = EmptyMap
    /\ res = Some(GenerateSnapshot(LastById(L), LastById(M), EmptyMap, EmptyMap,
                                   filter_workspace))

\* C20: from a new registry, WindowsChanged(L) returns None and keeps L, and
\* WorkspacesChanged(M) returns None and keeps M; WorkspacesChanged(M) after
\* the former and WindowsChanged(L) after the latter end in the same Ready
\* state, windows from L, workspaces from M, both per-workspace maps empty,
\* and return the same snapshot.
C20_InitialOrderIrrelevant ==
    [][\A L \in WindowLists, M \in WorkspaceLists :
         /\ (state = "None" /\ WindowsChanged(L)) =>
               (state' = "WindowsOnly" /\ wins_vec' = L /\ result' = None)
         /\ (state = "None" /\ WorkspacesChanged(M)) =>
               (state' = "WorkspacesOnly" /\ ws_vec' = M /\ result' = None)
         /\ (state = "WindowsOnly" /\ wins_vec = L /\ WorkspacesChanged(M)) =>
               ReadyFrom(L, M, state', windows', workspaces', active_per_workspace',
                         last_focused_per_workspace', result')
         /\ (state = "WorkspacesOnly" /\ ws_vec = M /\ WindowsChanged(L)) =>
               ReadyFrom(L, M, state', windows', workspaces', active_per_workspace',
                         last_focused_per_workspace', result')]_vars

\* Ready was entered by a WorkspacesChanged that followed the windows: two
\* windows are emitted and both per-workspace maps are empty.
C20_Witness ==
    /\ state = "Ready"
    /\ event = "WorkspacesChanged"
    /\ active_per_workspace = EmptyMap
    /\ last_focused_per_workspace = EmptyMap
    /\ Cardinality(DOMAIN windows) = 2
    /\ Len(Snapshot) = 2

---------------------------------------------------------------------------
(* Properties of the focus events (FocusChangeSpec, Spec).                 *)

\* The window that holds focus, the one of lowest id when the registry was
\* given several, and the workspace of a window, if any.
FocusedBefore == IF FocusedIds(windows) = {} THEN None ELSE Some(Min(FocusedIds(windows)))

WorkspaceIdOf(id) ==
    IF id # None /\ Unwrap(id) \in DOMAIN windows
    THEN windows[Unwrap(id)].workspace_id
    ELSE None

\* C15: WindowFocusChanged(new) in Ready, o the window focused before it:
\* the entry of the workspace w of new, a known window, is new; the entry of
\* the workspace v of o is o unless v = w; the entry of every other
\* workspace is what it was, defined or not.
C15_FocusChangeRemembers ==
    [][\A new \in Opt(1..(FcWin + 1)) :
         (state = "Ready" /\ WindowFocusChanged(new)) =>
            \A x \in FocusChangeWorkspaces :
               IF WorkspaceIdOf(new) = Some(x)
               THEN /\ x \in DOMAIN last_focused_per_workspace'
                    /\ last_focused_per_workspace'[x] = Unwrap(new)
               ELSE IF WorkspaceIdOf(FocusedBefore) = Some(x)
               THEN /\ x \in DOMAIN last_focused_per_workspace'
                    /\ last_focused_per_workspace'[x] = Unwrap(FocusedBefore)
               ELSE Get(last_focused_per_workspace', x) = Get(last_focused_per_workspace, x)]_vars

\* Focus went from window 1 on workspace 1 to window 2 on workspace 2: each
\* workspace remembers its window and only window 2 is focused.
C15_Witness ==
    /\ state = "Ready"
    /\ event = "WindowFocusChanged"
    /\ DOMAIN windows = {1, 2}
    /\ windows[1].workspace_id = Some(1)
    /\ windows[2].workspace_id = Some(2)
    /\ FocusedIds(windows) = {2}
    /\ DOMAIN last_focused_per_workspace = {1, 2}
    /\ last_focused_per_workspace[1] = 1
    /\ last_focused_per_workspace[2] = 2

\* The windows that hold focus on workspace w.
FocusedOn(w) == {k \in FocusedIds(windows) : windows[k].workspace_id = Some(w)}

\* C16 as stated, read in a Ready state where a window of workspace w holds
\* focus: no window had focus on w more recently than the windows that hold
\* it now, so last_focused_per_workspace[w] is defined and names one of
\* them, whichever event gave them the focus.
C16_LastFocusedIsMostRecent ==
    state = "Ready" =>
        \A w \in 1..MaxWs :
            FocusedOn(w) # {} =>
                /\ w \in DOMAIN last_focused_per_workspace
                /\ last_focused_per_workspace[w] \in FocusedOn(w)

---------------------------------------------------------------------------
(* Properties of the workspace events (ActivateSpec).                      *)

\* The active workspaces of a map that have output o.
ActiveOn(wss, o) == {k \in DOMAIN wss : wss[k].is_active /\ wss[k].output = o}

\* C17: WorkspaceActivated(id) in Ready, id a known workspace on output o:
\* a workspace on o is active exactly if it is id, a workspace on another
\* output is what it was, no workspace comes or goes, and windows,
\* active_per_workspace and last_focused_per_workspace are what they were.
C17_ActivationPerOutput ==
    [][\A id \in 1..AcWs :
         (state = "Ready" /\ id \in DOMAIN workspaces /\ WorkspaceActivated(id)) =>
            /\ DOMAIN workspaces' = DOMAIN workspaces
            /\ \A k \in DOMAIN workspaces :
                  IF workspaces[k].output = workspaces[id].output
                  THEN /\ workspaces'[k].is_active = (k = id)
                       /\ [workspaces'[k] EXCEPT !.is_active = workspaces[k].is_active]
                              = workspaces[k]
                  ELSE workspaces'[k] = workspaces[k]
            /\ windows' = windows
            /\ active_per_workspace' = active_per_workspace
            /\ last_focused_per_workspace' = last_focused_per_workspace]_vars

\* After an activation two workspaces are active, each on its own output,
\* and the overview and last-focused maps hold an entry.
C17_Witness ==
    /\ state = "Ready"
    /\ event = "WorkspaceActivated"
    /\ DOMAIN workspaces = {1, 2}
    /\ workspaces[1].output = Some("DP-1")
    /\ workspaces[2].output = Some("DP-2")
    /\ workspaces[1].is_active
    /\ workspaces[2].is_active
    /\ active_per_workspace # EmptyMap
    /\ last_focused_per_workspace # EmptyMap

OutputNames(wss) == {wss[k].output : k \in DOMAIN wss} \ {None}

OnePerOutput(wss) == \A o \in OutputNames(wss) : Cardinality(ActiveOn(wss, o)) <= 1

\* C18 as stated: in every Ready state, for every output name at most one
\* workspace with that output is active.
C18_OneActivePerOutput == state = "Ready" => OnePerOutput(workspaces)

\* C18, amended: right after WorkspaceActivated(id), id a known workspace on
\* output o, the one active workspace on o is id; and an event other than
\* WorkspacesChanged, processed in a Ready state with at most one active
\* workspace per output name, leaves at most one per output name.
C18_ActivationLeavesOne ==
    [][/\ \A id \in 1..(AcWs + 1) :
             (state = "Ready" /\ id \in DOMAIN workspaces /\ WorkspaceActivated(id)) =>
                 ActiveOn(workspaces', workspaces[id].output) = {id}
       /\ (/\ state = "Ready"
           /\ event' # "WorkspacesChanged"
           /\ OnePerOutput(workspaces)) => OnePerOutput(workspaces')]_vars

\* Two workspaces share an output; after an activation the second one alone
\* is active.
C18_Witness ==
    /\ state = "Ready"
    /\ event = "WorkspaceActivated"
    /\ DOMAIN workspaces = {1, 2}
    /\ workspaces[1].output = Some("DP-1")
    /\ workspaces[2].output = Some("DP-1")
    /\ ~workspaces[1].is_active
    /\ workspaces[2].is_active

---------------------------------------------------------------------------
(* Properties of the window events (FocusChangeSpec, Spec).                *)

\* C28: after WindowFocusChanged(id) in Ready the focused windows of the
\* registry are {id} when id names a window of the map, and none when id is
\* absent or names no window of the map; no window comes or goes.
C28_FocusSetAfterChange ==
    [][\A id \in Opt(1..(FcWin + 1)) :
         (state = "Ready" /\ WindowFocusChanged(id)) =>
            /\ DOMAIN windows' = DOMAIN windows
            /\ FocusedIds(windows') =
                  IF id # None /\ Unwrap(id) \in DOMAIN windows THEN {Unwrap(id)} ELSE {}]_vars

\* A focus change that names no window of the map left two windows, none
\* of them focused, while the last-focused map remembers one.
C28_Witness ==
    /\ state = "Ready"
    /\ event = "WindowFocusChanged"
    /\ DOMAIN windows = {1, 2}
    /\ FocusedIds(windows) = {}
    /\ last_focused_per_workspace # EmptyMap

\* C29: after WindowOpenedOrChanged(w) in Ready the map holds w under w.id;
\* every other window is what it was, its is_focused cleared when w is
\* focused; workspaces, active_per_workspace and last_focused_per_workspace
\* are what they were.
C29_OpenedOrChangedFrame ==
    [][\A w \in FocusEnv.windows :
         (state = "Ready" /\ WindowOpenedOrChanged(w)) =>
            /\ DOMAIN windows' = DOMAIN windows \cup {w.id}
            /\ windows'[w.id] = w
            /\ \A k \in DOMAIN windows \ {w.id} :
                  windows'[k] = IF w.is_focused
                                THEN [windows[k] EXCEPT !.is_focused = FALSE]
                                ELSE windows[k]
            /\ state' = "Ready"
            /\ workspaces' = workspaces
            /\ active_per_workspace' = active_per_workspace
            /\ last_focused_per_workspace' = last_focused_per_workspace]_vars

\* A focused window replaced its unfocused copy beside two other windows
\* while the last-focused map names another window.
C29_Witness ==
    /\ state = "Ready"
    /\ event = "WindowOpenedOrChanged"
    /\ DOMAIN windows = 1..MaxWin
    /\ FocusedIds(windows) = {2}
    /\ 1 \in DOMAIN last_focused_per_workspace
    /\ last_focused_per_workspace[1] = 1

\* The ids of the snapshot a step returns.
ReturnedIds(res) == {Unwrap(res)[i].inner.id : i \in 1..Len(Unwrap(res))}

\* C30: WindowClosed(id) in Ready takes the window id out of the map, and
\* nothing when the map does not hold id; every other window and every
\* other field is what it was; the snapshot returned does not show id, and
\* until a WindowsChanged or a WindowOpenedOrChanged reports windows again
\* no event adds a window to the map or shows a window the map does not
\* hold.
C30_ClosedFrame ==
    [][state = "Ready" =>
         /\ \A id \in 1..MaxWin :
               WindowClosed(id) =>
                  /\ DOMAIN windows' = DOMAIN windows \ {id}
                  /\ \A k \in DOMAIN windows' : windows'[k] = windows[k]
                  /\ state' = "Ready"
                  /\ workspaces' = workspaces
                  /\ active_per_workspace' = active_per_workspace
                  /\ last_focused_per_workspace' = last_focused_per_workspace
                  /\ id \notin ReturnedIds(result')
         /\ event' \notin {"WindowsChanged", "WindowOpenedOrChanged"} =>
               DOMAIN windows' \subseteq DOMAIN windows
         /\ ReturnedIds(result') \subseteq DOMAIN windows']_vars

\* The second of three windows was closed: the snapshot shows the two
\* others, and the last-focused map still names the closed window.
C30_Witness ==
    /\ state = "Ready"
    /\ event = "WindowClosed"
    /\ DOMAIN windows = {1, 3}
    /\ EmittedIds = {1, 3}
    /\ 1 \in DOMAIN last_focused_per_workspace
    /\ last_focused_per_workspace[1] = 2

---------------------------------------------------------------------------
(* Properties of the notification matcher (WalkSpec, EntrySpec).           *)

\* The notification being handled, or handled last.
Handled == Unwrap(notification)

\* A notification with a process id has been given to handle_notification
\* while a snapshot was stored.
WalkBegun ==
    /\ IsSome(notification)
    /\ IsSome(Handled.process_id)
    /\ IsSome(previous_snapshot)

StoredSnapshot == Unwrap(previous_snapshot)

\* The first k process ids of the ancestry of p.
RECURSIVE Ancestry(_, _)
Ancestry(p, k) ==
    IF k = 0 THEN {}
    ELSE {p} \cup IF Query(p).ok /\ IsSome(Query(p).parent_id)
                  THEN Ancestry(Unwrap(Query(p).parent_id), k - 1)
                  ELSE {}

\* The process ids the walk has looked at so far.
Visited == Ancestry(Unwrap(Handled.process_id), lookups)

\* The windows of the snapshot owned by a visited process and not focused.
OnAncestry ==
    {i \in DOMAIN StoredSnapshot :
        /\ IsSome(StoredSnapshot[i].pid)
        /\ Unwrap(StoredSnapshot[i].pid) \in Visited
        /\ ~StoredSnapshot[i].is_focused}

\* No later window of the snapshot has the process id of window i.
LastOfItsProcess(i) ==
    \A j \in DOMAIN StoredSnapshot :
        StoredSnapshot[j].pid = StoredSnapshot[i].pid => j <= i

\* The windows PID matching flags: of the windows on the ancestry, those
\* that are the last of their process and have a button.
PidFlagged ==
    {StoredSnapshot[i].id : i \in
        {j \in OnAncestry : LastOfItsProcess(j) /\ StoredSnapshot[j].id \in buttons}}

\* C21 as stated: every unfocused window of the snapshot owned by a visited
\* process is flagged urgent, and when one is flagged the pass by desktop
\* entry flags nothing.
C21_EveryOwnedWindowFlagged ==
    WalkBegun =>
        /\ \A i \in OnAncestry : StoredSnapshot[i].id \in urgent
        /\ (pc = "idle" /\ OnAncestry # {}) =>
              urgent = {StoredSnapshot[i].id : i \in OnAncestry}

\* C21 (amended): every unfocused window of the snapshot that is owned by a
\* visited process, is the last window of the snapshot with that process id
\* and has a button is flagged urgent, for every visited ancestor; and when
\* at least one window is flagged this way, no other window is flagged.
C21_PidMatching ==
    WalkBegun =>
        /\ PidFlagged \subseteq urgent
        /\ (pc = "walk" \/ PidFlagged # {}) => urgent = PidFlagged

\* Two windows owned by the notifying process and by its parent are both
\* flagged, while the desktop entry names an app_id of the snapshot.
C21_Witness ==
    /\ WalkBegun
    /\ pc = "idle"
    /\ lookups = 2
    /\ Handled.process_id = Some(50)
    /\ Len(StoredSnapshot) = 2
    /\ StoredSnapshot[1].pid = Some(40)
    /\ StoredSnapshot[2].pid = Some(50)
    /\ urgent = {1, 2}
    /\ settings.use_desktop_entry
    /\ Handled.desktop_entry = StoredSnapshot[1].app_id

\* The lookup of process p ends the walk: it reports no parent or fails.
Stops(p) == ~Query(p).ok \/ Query(p).parent_id = None

\* The process id the walk stands at after k lookups that did not end it.
RECURSIVE Ancestor(_, _)
Ancestor(p, k) ==
    IF k = 0 \/ Stops(p) THEN p ELSE Ancestor(Unwrap(Query(p).parent_id), k - 1)

\* The ancestry of p ends within k lookups.
RECURSIVE EndsWithin(_, _)
EndsWithin(p, k) ==
    /\ k > 0
    /\ Stops(p) \/ EndsWithin(Unwrap(Query(p).parent_id), k - 1)

\* The ancestry of the notifying process is acyclic: it ends before a
\* process id repeats.
AcyclicAncestry == EndsWithin(Unwrap(Handled.process_id), Cardinality(DOMAIN parents))

\* Process 50 has parent 40, process 40 has no parent, the notification
\* comes from process 50 and window i, not focused and with a button, is
\* the window of process 40.
FiftyForty(i) ==
    /\ WalkBegun
    /\ Handled.process_id = Some(50)
    /\ parents[50] = [ok |-> TRUE, parent_id |-> Some(40)]
    /\ parents[40] = [ok |-> TRUE, parent_id |-> None]
    /\ i \in DOMAIN StoredSnapshot
    /\ StoredSnapshot[i].pid = Some(40)
    /\ LastOfItsProcess(i)
    /\ ~StoredSnapshot[i].is_focused
    /\ StoredSnapshot[i].id \in buttons

C25_NothingFlagged ==
    (/\ IsSome(notification)
     /\ IsSome(Handled.process_id) /\ IsSome(previous_snapshot) => PidFlagged = {}
     /\ ~settings.use_desktop_entry \/ Handled.desktop_entry = None)
        => urgent = {}

\* The walk has ended without a flag, the desktop entry names the app_id of
\* a window with a button, and matching by desktop entry is disabled.
C25_Witness ==
    /\ WalkBegun
    /\ pc = "idle"
    /\ lookups = 2
    /\ PidFlagged = {}
    /\ ~settings.use_desktop_entry
    /\ 1 \in buttons
    /\ IsSome(Handled.desktop_entry)
    /\ StoredSnapshot[1].app_id = Handled.desktop_entry
    /\ urgent = {}

\* handle_notification has gone through the pass by desktop entry: the
\* notification has a desktop entry, no process id, and the pass is enabled.
EntryPassDone ==
    /\ IsSome(notification)
    /\ IsSome(previous_snapshot)
    /\ Handled.process_id = None
    /\ settings.use_desktop_entry
    /\ IsSome(Handled.desktop_entry)

\* The desktop entry after the rename table.
Renamed ==
    IF Unwrap(Handled.desktop_entry) \in DOMAIN settings.map_app_ids
    THEN settings.map_app_ids[Unwrap(Handled.desktop_entry)]
    ELSE Unwrap(Handled.desktop_entry)

\* The windows of the snapshot with an app_id.
Named == {i \in DOMAIN StoredSnapshot : StoredSnapshot[i].app_id # None}

AppId(i) == StoredSnapshot[i].app_id[1]

\* The windows whose app_id is the mapped entry, letter for letter.
ExactWindows == {i \in Named : AppId(i) = Renamed}

\* Equality of two strings without regard to case.
SameFolded(a, b) ==
    /\ Len(a) = Len(b)
    /\ \A k \in 1..Len(a) : a[k] = b[k] \/ {a[k], b[k]} = {"a", "A"}

\* The last dot-delimited segment of a string.
RECURSIVE LastSegment(_)
LastSegment(a) ==
    IF \A k \in 1..Len(a) : a[k] # "." THEN a ELSE LastSegment(Tail(a))

\* The fuzzy candidates as the claim describes them.
FuzzyWindows ==
    {i \in Named :
        \/ SameFolded(AppId(i), Renamed)
        \/ SameFolded(LastSegment(AppId(i)), LastSegment(Renamed))}

\* The fuzzy candidates with the two conditions of the code: the suffix is
\* compared only for an app_id that contains a dot, and a window is flagged
\* through its button.
FuzzyButtons ==
    {i \in Named :
        /\ StoredSnapshot[i].id \in buttons
        /\ \/ SameFolded(AppId(i), Renamed)
           \/ /\ \E k \in 1..Len(AppId(i)) : AppId(i)[k] = "."
              /\ SameFolded(LastSegment(AppId(i)), LastSegment(Renamed))}

Flagged == {i \in DOMAIN StoredSnapshot : StoredSnapshot[i].id \in urgent}

\* C23: when a window of the snapshot has the mapped entry as its app_id,
\* only windows with that app_id are flagged, fuzzy matching enabled or not.
C23_ExactSuppressesFuzzy ==
    (EntryPassDone /\ ExactWindows # {}) => Flagged \subseteq ExactWindows

\* C24 as stated: without an exact match the flagged windows are the fuzzy
\* candidates when fuzzy matching is enabled, and none when it is disabled.
C24_FuzzyAsStated ==
    (EntryPassDone /\ ExactWindows = {}) =>
        Flagged = IF settings.use_fuzzy_matching THEN FuzzyWindows ELSE {}

\* C24 (amended): with fuzzy matching enabled and no window whose app_id is
\* the mapped entry, the flagged windows are exactly the windows with a
\* button whose app_id equals the mapped entry case-insensitively, or whose
\* app_id contains a dot and has the last dot-delimited segment of the mapped
\* entry, case-insensitively; with fuzzy matching disabled none is flagged.
C24_FuzzyMatching ==
    (EntryPassDone /\ ExactWindows = {}) =>
        Flagged = IF settings.use_fuzzy_matching THEN FuzzyButtons ELSE {}

\* Fuzzy matching is enabled, the entry "a" is renamed to "A", and the
\* windows "a" and ".a" are both flagged: one by case, one by suffix.
C24_Witness ==
    /\ EntryPassDone
    /\ settings.use_fuzzy_matching
    /\ Handled.desktop_entry = Some(<<"a">>)
    /\ Renamed = <<"A">>
    /\ Len(StoredSnapshot) = 2
    /\ StoredSnapshot[1].app_id = Some(<<"a">>)
    /\ StoredSnapshot[2].app_id = Some(<<".", "a">>)
    /\ urgent = {1, 2}

---------------------------------------------------------------------------
(* Properties of the window stream (StreamSpec).                           *)

\* The snapshots the reader thread has produced, in the order of the
\* events they came from.
RECURSIVE SomeOf(_)
SomeOf(outs) ==
    IF outs = <<>> THEN <<>>
    ELSE IF Head(outs) = None THEN SomeOf(Tail(outs))
    ELSE <<Head(outs)[1]>> \o SomeOf(Tail(outs))

Produced == SomeOf(processed)

\* C26: what next_snapshot has returned, followed by what waits in the
\* channel, is what the reader has produced, in that order, so that the
\* received sequence is a prefix of the produced one with nothing dropped
\* and nothing twice; and the reader can always take its next event,
\* whatever waits in the channel and wherever the consumer stands.
C26_InProductionOrder ==
    /\ received \o snapshot_queue = Produced
    /\ Len(received) <= Len(Produced)
    /\ \A k \in 1..Len(received) : received[k] = Produced[k]
    /\ reader = "running" =>
          \A out \in Opt(StreamSnapshots) : ENABLED ReadEvent(out)

\* The reader has produced three snapshots ahead of the consumer: two
\* different ones have been received in order while the third waits.
C26_Witness ==
    /\ Len(Produced) = 3
    /\ Len(received) = 2
    /\ received[1] # received[2]
    /\ received = <<Produced[1], Produced[2]>>
    /\ snapshot_queue = <<Produced[3]>>

\* The window stream is over for run_event_loop: forward_window_updates
\* has ended and no WindowUpdate waits in the channel of events.
StreamOver ==
    /\ forwarder = "ended"
    /\ \A k \in 1..Len(event_queue) : event_queue[k].kind # "WindowUpdate"

\* The stored snapshot is the last one produced, none when none was.
KeepsLast ==
    previous_snapshot =
        IF Produced = <<>> THEN None ELSE Some(Produced[Len(Produced)])

---------------------------------------------------------------------------
(* Properties of the registry, continued.                                  *)

\* The changes of a batch that name window k.
Naming(changes, k) == {i \in DOMAIN changes : changes[i][1] = k}

\* The layout the batch lists last for window k.
ListedLayout(changes, k) ==
    changes[CHOOSE i \in Naming(changes, k) :
                \A j \in Naming(changes, k) : j <= i][2]

\* C31: in Ready, WindowLayoutsChanged gives every known window that the
\* batch names the layout the batch lists for it (the last one when it
\* lists several), whatever unknown ids the batch names beside it, changes
\* no other field of a window, no window the batch does not name and no
\* other field of the registry, and returns a snapshot.
C31_LayoutsApplied ==
    [][\A changes \in LayoutChanges :
         (state = "Ready" /\ WindowLayoutsChanged(changes)) =>
            /\ DOMAIN windows' = DOMAIN windows
            /\ \A k \in DOMAIN windows :
                  windows'[k] =
                     IF Naming(changes, k) # {}
                     THEN [windows[k] EXCEPT !.pos = ListedLayout(changes, k)]
                     ELSE windows[k]
            /\ UNCHANGED <<state, workspaces, active_per_workspace,
                           last_focused_per_workspace>>
            /\ result' # None]_vars

\* A batch that named the unknown window 3 has moved window 1 to a new
\* layout and left window 2 floating.
C31_Witness ==
    /\ event = "WindowLayoutsChanged"
    /\ DOMAIN windows = {1, 2}
    /\ windows[1].pos = Some(<<2, 1>>)
    /\ windows[2].pos = None
    /\ windows[2].is_focused
    /\ result # None

\* The events that carry a full list.
BulkEvents == {"WindowsChanged", "WorkspacesChanged"}

\* C32: before Ready (no list received, or only one of the two), an event
\* other than WindowsChanged and WorkspacesChanged changes nothing of the
\* tracker, neither the state nor the pending lists nor the maps, and
\* returns None; what the first snapshot is built from is as it was.
C32_NoEffectBeforeReady ==
    [][(state # "Ready" /\ event' \notin BulkEvents) =>
          /\ UNCHANGED tracker
          /\ result' = None]_vars

\* The window list is pending, the workspaces are not yet known, and a
\* WindowOpenedOrChanged has been received and has returned None.
C32_Witness ==
    /\ state = "WindowsOnly"
    /\ event = "WindowOpenedOrChanged"
    /\ Len(wins_vec) = 2
    /\ windows = EmptyMap
    /\ result = None

\* C33: in Ready, WorkspaceActivated with an id that is no key of the
\* workspace map leaves the is_active flag of every workspace and every
\* other field of the registry as it was.
C33_UnknownActivationNoOp ==
    [][\A id \in ActivateEnv.workspace_ids :
         (state = "Ready" /\ id \notin DOMAIN workspaces /\ WorkspaceActivated(id)) =>
            UNCHANGED tracker]_vars

\* A snapshot was generated while no candidate is focused and the active
\* workspace, the first by id, has a candidate window.
HighlightDue ==
    /\ state = "Ready"
    /\ result # None
    /\ NoCandidateFocused
    /\ ActiveIds # {}
    /\ \E i \in 1..Len(Snapshot) : Snapshot[i].inner.workspace_id = Some(Min(ActiveIds))

EmittedFocusedIds == {Snapshot[i].inner.id : i \in EmittedFocused}

\* C34 as stated: such a snapshot has exactly one window emitted as focused.
C34_ExactlyOneHighlighted ==
    HighlightDue => Cardinality(EmittedFocusedIds) = 1

\* C34 (amended): such a snapshot has at most one window emitted as focused:
\* the window the chain resolves (active_per_workspace, then
\* last_focused_per_workspace of the active workspace, then its first
\* candidate) when that window is a candidate, and none when the chain
\* resolves to the id of a window that is closed or no candidate.
C34_OneHighlightedIfCandidate ==
    HighlightDue => EmittedFocusedIds = {Unwrap(ExpectedHighlight)} \cap EmittedIds

\* After WindowClosed the two remaining windows are unfocused and the one
\* remembered for the active workspace is the only one emitted as focused.
C34_Witness ==
    /\ HighlightDue
    /\ event = "WindowClosed"
    /\ DOMAIN windows = {2, 3}
    /\ 1 \notin DOMAIN active_per_workspace
    /\ 1 \in DOMAIN last_focused_per_workspace
    /\ last_focused_per_workspace[1] = 3
    /\ EmittedFocusedIds = {3}

\* The ids of the windows whose is_focused the snapshot has overridden.
OverriddenIds == {Snapshot[i].inner.id : i \in Overridden}

\* The active workspace used for highlight resolution.
ResolvedFor == Min(ActiveIds)

\* C35 as stated: an overridden window is on the active workspace used for
\* highlight resolution, the first workspace with is_active = true.
C35_OverrideOnActiveWorkspace ==
    (state = "Ready" /\ result # None) =>
        \A k \in OverriddenIds :
            /\ ActiveIds # {}
            /\ windows[k].workspace_id = Some(ResolvedFor)

\* C35 (amended): an overridden window is on the active workspace used for
\* highlight resolution, or it is the window that active_per_workspace, or
\* without it last_focused_per_workspace, names for that workspace, on
\* whatever workspace that window now is.
C35_OverrideResolvedForActive ==
    (state = "Ready" /\ result # None) =>
        \A k \in OverriddenIds :
            /\ ActiveIds # {}
            /\ \/ windows[k].workspace_id = Some(ResolvedFor)
               \/ /\ ResolvedFor \in DOMAIN active_per_workspace
                  /\ active_per_workspace[ResolvedFor] = k
               \/ /\ ResolvedFor \notin DOMAIN active_per_workspace
                  /\ ResolvedFor \in DOMAIN last_focused_per_workspace
                  /\ last_focused_per_workspace[ResolvedFor] = k

\* No map names a window for the active workspace 2, and its only
\* candidate is emitted as focused.
C35_Witness ==
    /\ state = "Ready"
    /\ result # None
    /\ ActiveIds = {2}
    /\ active_per_workspace = EmptyMap
    /\ last_focused_per_workspace = EmptyMap
    /\ OverriddenIds = {1}
    /\ windows[1].workspace_id = Some(2)

---------------------------------------------------------------------------
(* Properties of the consumer: urgency and buttons.                        *)

\* The windows of the stored snapshot that are focused and flagged urgent.
FocusedFlagged ==
    {i \in DOMAIN StoredSnapshot :
        StoredSnapshot[i].is_focused /\ StoredSnapshot[i].id \in urgent}

\* C36 as stated: whatever the notification and the snapshot, no window
\* that is focused in the snapshot is flagged urgent.
C36_NoFocusedFlagged ==
    (IsSome(notification) /\ IsSome(previous_snapshot)) => FocusedFlagged = {}

\* C36 (amended): PID matching flags no window that is focused in the
\* snapshot; a focused window is flagged only by the pass by desktop entry,
\* as an exact or a fuzzy match, which does not look at is_focused.
C36_FocusedOnlyByDesktopEntry ==
    (IsSome(notification) /\ IsSome(previous_snapshot)) =>
        /\ (pc = "walk" \/ (IsSome(Handled.process_id) /\ PidFlagged # {}))
              => FocusedFlagged = {}
        /\ \A i \in FocusedFlagged :
              /\ pc = "idle"
              /\ settings.use_desktop_entry
              /\ IsSome(Handled.desktop_entry)
              /\ i \in ExactWindows
                 \/ (settings.use_fuzzy_matching /\ i \in FuzzyButtons)

\* The notification has no process id; the focused window "a" is flagged
\* as the exact match of the desktop entry.
C36_Witness ==
    /\ IsSome(notification)
    /\ IsSome(previous_snapshot)
    /\ Handled.process_id = None
    /\ Len(StoredSnapshot) = 2
    /\ StoredSnapshot[1].is_focused
    /\ StoredSnapshot[1].app_id = Some(<<"a">>)
    /\ StoredSnapshot[2].app_id = Some(<<"A">>)
    /\ settings.use_fuzzy_matching
    /\ buttons = {1, 2}
    /\ urgent = {1}

---------------------------------------------------------------------------
(* Properties of the snapshot under the two values of filter_workspace.    *)

\* The snapshot of the registry as it stands, under the given filter: the
\* returned one when it was built under that filter.
SnapshotUnder(filter) ==
    IF filter = filter_workspace
    THEN Snapshot
    ELSE GenerateSnapshot(windows, workspaces, active_per_workspace,
                          last_focused_per_workspace, filter)

\* What the claim compares of a snapshot: ids and output names, in order.
IdsAndOutputs(sn) == [i \in 1..Len(sn) |-> <<sn[i].inner.id, sn[i].output_name>>]

\* s is t with some of its elements left out.
RECURSIVE IsSubsequence(_, _)

IsSubsequence(s, t) ==
    IF s = <<>> THEN TRUE
    ELSE IF t = <<>> THEN FALSE
    ELSE IF Head(s) = Head(t) THEN IsSubsequence(Tail(s), Tail(t))
    ELSE IsSubsequence(s, Tail(t))

\* C39: the ids emitted with filter_workspace = true are, in the same
\* order and with the same output names, a subsequence of the ids emitted
\* with filter_workspace = false.
C39_FilteredIsSubsequence ==
    (state = "Ready" /\ IsSome(result)) =>
        IsSubsequence(IdsAndOutputs(SnapshotUnder(TRUE)),
                      IdsAndOutputs(SnapshotUnder(FALSE)))

\* The filter is on and keeps both windows, which the sort emits in the
\* order opposite to their ids.
C39_Witness ==
    /\ state = "Ready"
    /\ IsSome(result)
    /\ filter_workspace
    /\ IdsAndOutputs(SnapshotUnder(TRUE)) = <<<<2, Some("DP-2")>>, <<1, Some("DP-1")>>>>
    /\ Len(SnapshotUnder(FALSE)) = 2

\* The filter drops the first of the two windows the unfiltered snapshot
\* emits.
C39_WitnessDropped ==
    /\ state = "Ready"
    /\ IsSome(result)
    /\ Len(SnapshotUnder(FALSE)) = 2
    /\ IdsAndOutputs(SnapshotUnder(TRUE)) = <<IdsAndOutputs(SnapshotUnder(FALSE))[2]>>

---------------------------------------------------------------------------
(* Properties of the urgent mark over the events of the loop.              *)

\* The step is the event loop handling a window update.
WindowUpdateStep ==
    /\ event_queue # <<>>
    /\ Head(event_queue).kind = "WindowUpdate"
    /\ event_queue' = Tail(event_queue)

\* The window update being handled reports w with is_focused = true.
ReportedFocused(w) ==
    /\ event_queue # <<>>
    /\ Head(event_queue).kind = "WindowUpdate"
    /\ \E i \in DOMAIN Head(event_queue).snapshot :
          /\ Head(event_queue).snapshot[i].id = w
          /\ Head(event_queue).snapshot[i].is_focused

---------------------------------------------------------------------------
(* Properties of the button map.                                           *)

\* The windows of the stored snapshot the filter of the loop displays and
\* no ignore rule ignores.
PassingIds ==
    {StoredSnapshot[i].id : i \in
        {j \in DOMAIN StoredSnapshot :
            /\ ShouldDisplay(display_filter,
                             UnwrapOrDefault(StoredSnapshot[j].output_name))
            /\ ~ShouldIgnore(settings.ignore_rules, StoredSnapshot[j].app_id,
                             StoredSnapshot[j].title, StoredSnapshot[j].workspace_id)}}

\* C37: once a snapshot has been handled, after every event of the loop
\* the buttons are those of the windows of the latest snapshot that pass
\* the current display filter and that no ignore rule ignores.
C37_ButtonsAreDisplayedWindows ==
    (IsSome(previous_snapshot) /\ pc = "idle") => buttons = PassingIds

\* The same with the display filter left aside: under ShowAll the buttons
\* are those of the windows no ignore rule ignores.
C37_ButtonsAreNotIgnored ==
    (IsSome(previous_snapshot) /\ pc = "idle" /\ display_filter = ShowAll
        /\ settings.show_all_outputs)
        => buttons = PassingIds

\* The same with the ignore rules left aside: under no rule the buttons
\* are those of the windows the current display filter displays.
C37_ButtonsFollowFilter ==
    (IsSome(previous_snapshot) /\ pc = "idle" /\ settings.ignore_rules = <<>>)
        => buttons = PassingIds

====
